---- MODULE Spec2Model ----
(***************************************************************************)
(* State-machine model of the BLOOMIN8 E-Ink Canvas integration: the API   *)
(* client's reachability gate and BLE wake (api_client.py), the Wake       *)
(* (Bluetooth) button (button.py), the device-info snapshot handlers       *)
(* (__init__.py, media_player.py, coordinator.py), the upload retry loop   *)
(* and the request log throttle.                                           *)
(*                                                                         *)
(* The program is single-threaded cooperative (asyncio): a step of the     *)
(* model is the code a task runs between two awaits.  Every await on the   *)
(* network or on BLE completes with an outcome chosen by the environment.  *)
(***************************************************************************)
EXTENDS Integers, Sequences, FiniteSets, TLC

(* ---------------- program constants ---------------- *)
Cooldown == 30
BleWakeWaitSeconds == 10
HttpOnlineTimeoutSeconds == 30
PollSleepSeconds == 2
PingTimeoutSeconds == 3
NumWakeChars == 2
PostWakeMaxAttempts == 3

(* ---------------- bounds of the model ---------------- *)
TickSeconds == 10
MaxClock == 70
MaxOps == 3
MaxSnap == 2
MaxRetries == 3
MaxUploads == 3
MaxEvents == 5
MaxPayload == 2
MaxChunk == 2
MaxPulses == 2
WriteTimeoutSeconds == 2
MaxStamp == 2
MaxCalls == 2
MaxPath == 3
MaxName == 2
MaxItems == 2
MaxCacheOps == 4
MaxCacheClock == 3
MaxWall == 5

Tasks == {"t1", "t2"}
Solo == {"t1"}
Uploaders == {"u1", "u2"}
NoTask == "none"
Kinds == {"get_device_info", "get_status", "get_image_bytes"}

VARIABLES
    clock,       \* time.monotonic(), in seconds
    bleAutoWake, \* EinkCanvasApiClient._ble_auto_wake
    hasMac,      \* EinkCanvasApiClient._mac_address is non-empty
    lastWake,    \* EinkCanvasApiClient._last_ble_wake_attempt
    lock,        \* holder of EinkCanvasApiClient._ble_wake_lock, or NoTask
    stamps,      \* history: the time of every attempt that passed the cooldown check
                 \* under the lock (the values written to _last_ble_wake_attempt), in order
    ops,         \* operations started so far, over all tasks (bounds the run)
    task         \* per task, a record:
                 \*   pc      the await the task is suspended at
                 \*   kind    the operation it runs, wake: that operation's wake flag
                 \*   via     whose BLE code it runs: "client" (api_client.py) or "button" (button.py)
                 \*   idx     index into BLE_WAKE_CHAR_UUIDS
                 \*   tries   attempt number of the button's post-wake refresh (0: not in it)
                 \*   until   the instant its asyncio.sleep ends
                 \*   start   `start` of the wait-for-HTTP loop
                 \*   at      history: the instant it entered async_ensure_awake (0 once out of it)
                 \*   near    history: it entered async_ensure_awake less than 30 s after
                 \*           another task that was still inside it
                 \*   how     history: how its last gate / async_ensure_awake ended
                 \*   elapsed history: at its last cooldown check the probe had failed and 30 s
                 \*           had passed since _last_ble_wake_attempt
                 \*   arr     history: it entered async_ensure_awake while another task was in
                 \*           its BLE wake under the lock, and that task still holds the lock
                 \*   waited  history: the operation had to wait for the wake lock
                 \*   sent    history: the operation issued its own HTTP request
                 \*   ble     history: the operation touched BLE (resolution, connect, write)
                 \*   res     the operation's return value ("none": not returned yet)
                 \*   by      history: "refresh" when the coordinator's refresh made the
                 \*           call, else "caller"; calls: the get_device_info calls of
                 \*           that refresh

VARIABLES
    coordData,   \* EinkCanvasDeviceInfoCoordinator.data: 0 for None, else a snapshot
    lastOk,      \* EinkCanvasDeviceInfoCoordinator.last_update_success
    runtimeInfo, \* RuntimeData.device_info: 0 for None, else a snapshot
    playerInfo,  \* EinkDisplayMediaPlayer._device_info: 0 for None, else a snapshot
    lastRun      \* history: the last handler that ran, what its fetch returned, and
                 \* the coordinator data and runtime cache it found

VARIABLES
    sticky,      \* EinkCanvasApiClient._upload_requires_lenient_http
    uploads,     \* upload_image calls made so far (bounds the run)
    warnings,    \* history: how often the warning "Upload hit invalid HTTP response
                 \* ... Falling back to lenient upload implementation" was logged
    up           \* per caller, its upload_image call, a record:
                 \*   pc       the await it is suspended at
                 \*   n        max_retries
                 \*   attempt  the loop variable
                 \*   res      its return value ("none": not returned yet)
                 \*   entrySticky  history: the flag when the call was made
                 \*   attempts     history: loop iterations started
                 \*   strictCalls, lenientCalls  history: uses of each transport
                 \*   waits        history: the wait_time of every asyncio.sleep, in order
                 \*   defectAt       history: the attempt that met the framing defect (0: none)
                 \*   tooLargeAt     history: the attempt whose lenient read hit the header limit (0: none)
                 \*   transientOnly  history: every attempt so far ended in a timeout
                 \*                  or a connection error

VARIABLES
    requestLastOk,   \* EinkCanvasApiClient._request_last_ok, "unset" for a missing key
    recorded         \* history: per key, the outcomes recorded so far, each with
                     \* what was logged for it ("fail", "recover" or "nothing")

VARIABLES
    wire,        \* the bytes of the response the StreamReader has not handed out yet;
                 \* after them the peer closes the connection
    rx           \* the _read_http_response_lenient call, a record:
                 \*   pc       the await it is suspended at ("done", "raised" at its end)
                 \*   buf      _read_until_delim's buf
                 \*   status, headers, body   its locals of these names
                 \*   err      the exception it raised
                 \*   kind, payload, first    history: how the response was framed,
                 \*            the body bytes sent, the first Content-Length value

VARIABLES
    pulses,      \* BLE pulses started so far (bounds the run)
    pulse        \* the BLE pulse in progress, a record:
                 \*   impl     whose code runs: "client" (async_ensure_awake) or
                 \*            "helper" (async_ble_wake)
                 \*   mode     ble_mode / mode: "bleak_retry_connector" or "bleak"
                 \*   pc       the await it is suspended at, "ended" after it
                 \*   idx      the candidate characteristic being written
                 \*   raising  an exception is on its way through the `finally`
                 \*   history: connects, disconnects (calls made), bounded (every
                 \*   disconnect so far ran under wait_for), asserted (an assert
                 \*   write succeeded), withResponse (ble_used_write_response),
                 \*   timedOut (the disconnect timed out), failed
                 \*   (reported as failed: warning logged or result.ok false),
                 \*   outcome ("returned" or "raised" to the caller),
                 \*   writes (the assert writes made, in order: candidate,
                 \*   with or without response, timeout in seconds with 0 for
                 \*   none, how it ended), surfaced (the error logged, put into
                 \*   the result or raised)
                 \*   lastErr  last_err

VARIABLES
    wallClock,   \* dt_util.utcnow(), the wall clock
    store,       \* the persisted record: [data, at], data 0 when there is none
    snap,        \* the coordinator: data (0 for None) and at, its
                 \* last_successful_update (0 for None)
    boot,        \* how far async_setup_entry and the entities' setup got
    sensorRestored,  \* EinkLastUpdateSensor._restored_last_update, 0 for None
    haState,     \* the sensor's last state kept by Home Assistant, 0 for none
    restoreLog   \* history: restoredAt, the timestamp load_cached restored (0:
                 \* none), by, what last changed snap.at, changes, how often

VARIABLES
    apiCalls,    \* API-client operations called so far (bounds the run)
    call         \* the API-client operation in progress, a record:
                 \*   op, arg   the operation and what is wrong with its arguments
                 \*             ("ok": nothing)
                 \*   text      its string argument, character by character: the
                 \*             gallery name or the image path
                 \*   wake      its wake flag (TRUE for the operations without one)
                 \*   n, attempt  max_retries and the loop variable (upload_image)
                 \*   pc        the await it is suspended at; "hung": an await that
                 \*             never ends
                 \*   res       its return value ("none": not returned yet)
                 \*   raised    an exception left the operation
                 \*   history: probes (reachability probes made), ble (BLE wake
                 \*   attempted), requests (HTTP requests issued), bare (network
                 \*   steps awaited without a timeout of their own), answer (what
                 \*   the last probe met), reach (what it returned), cause (what
                 \*   the last request met), url (the URL of the GET of
                 \*   get_image_bytes), sent (the gallery name put in the request)

VARIABLES
    reply        \* a 200 response to an upload and what upload_image makes of it:
                 \*   transport  "strict" (aiohttp) or "lenient" (raw socket)
                 \*   filename, gallery  the sanitized arguments
                 \*   json       the body: "object", "other" (JSON, but no object)
                 \*              or "invalid" (no JSON)
                 \*   path       the object's "path": a string (a sequence of
                 \*              characters), NoPathKey, or NotAString
                 \*   done, result   upload_image returned result (NoPath: None)

VARIABLES
    entryState,  \* per config entry: "not_loaded", "setup" (async_setup_entry
                 \* awaits the cached data and the first refresh), "forward" (it
                 \* awaits the platforms), "loaded", "unloading" (async_unload_entry
                 \* awaits the platforms), "failed_unload"
    hassData,    \* the entry ids in hass.data[DOMAIN]
    services     \* per service name: how often it was registered since it was
                 \* last removed (0: not registered)

VARIABLES
    cacheCfg,    \* BytesLruTtlCache: [ttl, max], the arguments of __init__
    cacheNow,    \* time.monotonic()
    cacheData,   \* self._data: the entries, [key, at], in the order of the OrderedDict
    cacheUsed,   \* history: per key, the number of the last operation that used it
    cacheOps,    \* operations made so far (bounds the run)
    cacheLast    \* history: the last operation, its key, the entry it found and
                 \* what it returned

wakeVars == <<clock, bleAutoWake, hasMac, lastWake, lock, stamps, ops, task>>
coordVars == <<coordData, lastOk, runtimeInfo, playerInfo, lastRun>>

uploadVars == <<sticky, uploads, warnings, up>>

logVars == <<requestLastOk, recorded>>

readerVars == <<wire, rx>>
pulseVars == <<pulses, pulse>>
apiVars == <<apiCalls, call>>
replyVars == <<reply>>
svcVars == <<entryState, hassData, services>>
cacheVars == <<cacheCfg, cacheNow, cacheData, cacheUsed, cacheOps, cacheLast>>
restartVars == <<wallClock, store, snap, boot, sensorRestored, haState, restoreLog>>

nonWake == <<coordVars, uploadVars, logVars, readerVars, pulseVars, restartVars, apiVars, replyVars, svcVars, cacheVars>>
nonCoord == <<wakeVars, uploadVars, logVars, readerVars, pulseVars, restartVars, apiVars, replyVars, svcVars, cacheVars>>
nonUpload == <<wakeVars, coordVars, logVars, readerVars, pulseVars, restartVars, apiVars, replyVars, svcVars, cacheVars>>
nonLog == <<wakeVars, coordVars, uploadVars, readerVars, pulseVars, restartVars, apiVars, replyVars, svcVars, cacheVars>>
nonReader == <<wakeVars, coordVars, uploadVars, logVars, pulseVars, restartVars, apiVars, replyVars, svcVars, cacheVars>>
nonPulse == <<wakeVars, coordVars, uploadVars, logVars, readerVars, restartVars, apiVars, replyVars, svcVars, cacheVars>>
nonRestart == <<wakeVars, coordVars, uploadVars, logVars, readerVars, pulseVars, apiVars, replyVars, svcVars, cacheVars>>
nonApi == <<wakeVars, coordVars, uploadVars, logVars, readerVars, pulseVars, restartVars, replyVars, svcVars, cacheVars>>
nonReply == <<wakeVars, coordVars, uploadVars, logVars, readerVars, pulseVars, restartVars, apiVars, svcVars, cacheVars>>
nonSvc == <<wakeVars, coordVars, uploadVars, logVars, readerVars, pulseVars, restartVars, apiVars, replyVars, cacheVars>>
nonCache == <<wakeVars, coordVars, uploadVars, logVars, readerVars, pulseVars, restartVars, apiVars, replyVars, svcVars>>
vars == <<wakeVars, coordVars, uploadVars, logVars, readerVars, pulseVars, restartVars, apiVars, replyVars, svcVars, cacheVars>>

(* ---------------- initial state ---------------- *)
IdleTask ==
    [pc |-> "idle", kind |-> "none", wake |-> FALSE, via |-> "client", idx |-> 0,
     tries |-> 0, until |-> 0, start |-> 0, at |-> 0, near |-> FALSE, how |-> "none",
     elapsed |-> FALSE, arr |-> FALSE, waited |-> FALSE, sent |-> FALSE, ble |-> FALSE, res |-> "none",
     by |-> "caller", calls |-> 0]

\* EinkCanvasApiClient.__init__; autoWake: the values of the ble_auto_wake option
InitWake(autoWake) ==
    /\ clock = 0
    /\ bleAutoWake \in autoWake
    /\ hasMac \in BOOLEAN
    /\ lastWake = 0
    /\ lock = NoTask
    /\ stamps = <<>>
    /\ ops = 0
    /\ task = [p \in Tasks |-> IdleTask]

\* history of a handler run: its name, what it fetched, whether it pushed, whether
\* the push replaced the data, the listener notifications and persistence writes
\* it caused
NoSummary ==
    [handler |-> "none", fetched |-> 0, pushed |-> FALSE, accepted |-> FALSE,
     notified |-> 0, persisted |-> 0, coordBefore |-> 0]

\* no handler has run: the summary of the last run, the data it found and the
\* summary of the run before it
NoRun ==
    [handler |-> "none", fetched |-> 0, pushed |-> FALSE, accepted |-> FALSE,
     notified |-> 0, persisted |-> 0, coordBefore |-> 0,
     runtimeBefore |-> 0, playerBefore |-> 0, prev |-> NoSummary]

\* async_setup_entry and the entities' setup: the coordinator holds the cached or
\* freshly fetched snapshot, or none, and the listeners have copied it
\* (__init__.py:112-139, media_player.py:140); held: the snapshots it may hold
InitCoord(held) ==
    /\ coordData \in held
    /\ lastOk \in BOOLEAN
    /\ coordData = 0 => ~lastOk
    /\ runtimeInfo = coordData
    /\ playerInfo = coordData
    /\ lastRun = NoRun

\* no upload_image call in progress
IdleUpload ==
    [pc |-> "idle", n |-> 0, attempt |-> 0, res |-> "none", entrySticky |-> FALSE,
     attempts |-> 0, strictCalls |-> 0, lenientCalls |-> 0, waits |-> <<>>,
     transientOnly |-> TRUE, defectAt |-> 0, tooLargeAt |-> 0]

\* EinkCanvasApiClient.__init__ (api_client.py:81)
InitUpload ==
    /\ sticky = FALSE
    /\ uploads = 0
    /\ warnings = 0
    /\ up = [u \in Uploaders |-> IdleUpload]

\* the throttle keys in use: _request_key("GET", ENDPOINT_STATUS) and
\* _request_key("GET", ENDPOINT_DEVICE_INFO) (api_client.py:87-88, 584, 647)
StatusKey == "GET /state"
DeviceInfoKey == "GET /deviceInfo"
Keys == {StatusKey, DeviceInfoKey}

\* EinkCanvasApiClient.__init__ (api_client.py:85)
InitLog ==
    /\ requestLastOk = [k \in Keys |-> "unset"]
    /\ recorded = [k \in Keys |-> <<>>]

\* a header that was not received
Absent == [text |-> "", num |-> -1]

\* the header names the reader looks up (api_client.py:1235, 1257)
HeaderNames == {"transfer-encoding", "content-length"}

\* no response is being read
IdleRx ==
    [pc |-> "idle", buf |-> <<>>, status |-> 0,
     headers |-> [h \in HeaderNames |-> Absent], body |-> <<>>, err |-> "",
     kind |-> "none", payload |-> <<>>, first |-> -1]

\* no lenient upload in progress
InitReader ==
    /\ wire = <<>>
    /\ rx = IdleRx

\* no BLE pulse in progress
IdlePulse ==
    [impl |-> "none", mode |-> "none", pc |-> "idle", idx |-> 0, raising |-> FALSE,
     connects |-> 0, disconnects |-> 0, bounded |-> TRUE, asserted |-> FALSE,
     withResponse |-> TRUE, timedOut |-> FALSE, failed |-> FALSE, outcome |-> "none",
     writes |-> <<>>, lastErr |-> "none", surfaced |-> "none", releases |-> <<>>]

InitPulse ==
    /\ pulses = 0
    /\ pulse = IdlePulse

\* no API-client operation in progress
IdleCall ==
    [op |-> "none", arg |-> "ok", wake |-> FALSE, n |-> 1, attempt |-> 0, pc |-> "idle",
     res |-> "none", raised |-> FALSE, probes |-> 0, ble |-> FALSE, requests |-> 0,
     bare |-> 0, answer |-> "none", reach |-> FALSE, cause |-> "none",
     text |-> <<>>, url |-> <<>>, sent |-> <<>>]

\* EinkCanvasApiClient.__init__ (api_client.py:53-85)
InitApi ==
    /\ apiCalls = 0
    /\ call = IdleCall

\* no upload response yet
NoReply ==
    [transport |-> "strict", filename |-> "f.jpg", gallery |-> "default", json |-> "invalid",
     path |-> <<>>, done |-> FALSE, result |-> <<>>]

\* the response has arrived with status 200; replies: what it may be
InitReply(replies) ==
    reply \in replies

\* the config entries of the domain
Entries == {"e1", "e2", "e3"}

\* the services _register_services registers (__init__.py:1020-1160) and the
\* names async_unload_entry removes (const.py:120-141): the same twenty names,
\* three of them here
RegisteredServices == {"sleep", "show_next", "delete_playlist"}
SERVICE_NAMES == {"show_next", "sleep", "delete_playlist"}

\* Home Assistant has started: no entry is set up, nothing is registered
InitServices ==
    /\ entryState = [e \in Entries |-> "not_loaded"]
    /\ hassData = {}
    /\ services = [s \in RegisteredServices \cup SERVICE_NAMES |-> 0]

\* the keys of the thumbnail cache
CacheKeys == {"k1", "k2", "k3"}

NoCacheOp == [op |-> "none", key |-> "none", found |-> FALSE, at |-> 0, now |-> 0, hit |-> FALSE]

\* BytesLruTtlCache.__init__ (thumbnail_utils.py:55-58)
InitCache(ttls, sizes) ==
    /\ cacheCfg \in [ttl : ttls, max : sizes]
    /\ cacheNow = 0
    /\ cacheData = <<>>
    /\ cacheUsed = [k \in CacheKeys |-> 0]
    /\ cacheOps = 0
    /\ cacheLast = NoCacheOp

\* no persisted record
NoStore == [data |-> 0, at |-> 0]

\* Home Assistant starts at RestartAt: the coordinator is created empty
\* (__init__.py:112-117); stores: what the store may hold, states: the sensor's
\* last state
InitRestart(stores, states) ==
    /\ wallClock = MaxStamp + 1
    /\ store \in stores
    /\ snap = [data |-> 0, at |-> 0]
    /\ boot = "created"
    /\ sensorRestored = 0
    /\ haState \in states
    /\ restoreLog = [restoredAt |-> 0, by |-> "none", changes |-> 0]

Init == InitWake(BOOLEAN) /\ InitCoord({0}) /\ InitUpload /\ InitLog /\ InitReader /\ InitPulse /\ InitRestart({NoStore}, {0}) /\ InitApi /\ InitReply({NoReply}) /\ InitServices /\ InitCache({1}, {1})

(* ---------------- helpers ---------------- *)

\* task p becomes r; when p leaves the `async with self._ble_wake_lock` block the
\* tasks that entered during its wake are no longer "during a wake in progress"
Step(p, r, leavesLock) ==
    /\ task' = [q \in Tasks |->
                  IF q = p THEN r
                  ELSE IF leavesLock THEN [task[q] EXCEPT !.arr = FALSE]
                  ELSE task[q]]
    /\ lock' = IF leavesLock THEN NoTask ELSE lock

\* api_client.py:263 and :278, `(now - self._last_ble_wake_attempt) < 30`
CooldownActive(now, last) == (now - last) < Cooldown

\* variant: the operation gives up when the wake did not bring the device online
RetGivesUp(r, h) ==
    IF h \in {"timeout", "notfound", "nobleak"}
    THEN [r EXCEPT !.pc = "done", !.how = h, !.res = "None", !.at = 0]
    ELSE [r EXCEPT !.pc = "http", !.how = h, !.at = 0]

\* async_ensure_awake returns; the operation goes on to its own HTTP request
Ret(r, h) == [r EXCEPT !.pc = "http", !.how = h, !.at = 0]

\* the awaits of a wake attempt between the stamp and the release of the lock
WakePhases == {"connect", "write", "write_nr", "release", "disconnect",
               "postsleep", "poll", "pollsleep"}

\* a task is in its wake attempt under the client's lock
WakeInProgress == lock # NoTask /\ task[lock].pc \in WakePhases

\* the awaits inside async_ensure_awake
InsideEnsure == {"ping1", "waitlock", "ping2"} \cup WakePhases

\* some task is inside async_ensure_awake and entered it less than 30 s ago
RecentEntry ==
    \E p \in Tasks :
        task[p].via = "client" /\ task[p].pc \in InsideEnsure /\ clock - task[p].at < Cooldown

\* variant: the auto-wake option is not looked at
EnsureAwakeEntryAlwaysOn(r) ==
    IF ~hasMac THEN Ret(r, "nomac")
    ELSE [r EXCEPT !.pc = "ping1", !.how = "none", !.at = clock, !.near = RecentEntry,
                 !.arr = WakeInProgress]

\* api_client.py:252-258, async_ensure_awake up to its first await
EnsureAwakeEntry(r) ==
    IF ~bleAutoWake THEN Ret(r, "disabled")
    ELSE IF ~hasMac THEN Ret(r, "nomac")
    ELSE [r EXCEPT !.pc = "ping1", !.how = "none", !.at = clock, !.near = RecentEntry,
                 !.arr = WakeInProgress]

\* variant: the wake=False branch ignores the probe
GateNeverSkips(ok) == FALSE

\* the wake=False branch of an operation: TRUE when it returns None at once
GateSkips(ok) == ~ok

\* an operation's code up to its first await: wake=True enters async_ensure_awake,
\* wake=False awaits the reachability probe
OpEntry(r, k, w) ==
    LET r0 == [r EXCEPT !.kind = k, !.wake = w, !.via = "client", !.by = "caller", !.calls = 0,
                        !.how = "none", !.at = 0, !.near = FALSE,
                        !.elapsed = FALSE, !.arr = FALSE, !.waited = FALSE, !.sent = FALSE,
                        !.ble = FALSE, !.res = "none"]
    IN  IF w THEN EnsureAwakeEntry(r0) ELSE [r0 EXCEPT !.pc = "gate"]

(* ---------------- API-client operations ---------------- *)

\* get_device_info / get_status / get_image_bytes are called
\* (api_client.py:647-659, 584-591, 201-211)
Call(p, ks, ws) ==
    /\ task[p].pc \in {"idle", "done"}
    /\ ops < MaxOps
    /\ ops' = ops + 1
    /\ \E k \in ks, w \in ws :
         Step(p, OpEntry([task[p] EXCEPT !.tries = 0], k, w), FALSE)
    /\ UNCHANGED <<clock, bleAutoWake, hasMac, lastWake, stamps>>
    /\ UNCHANGED nonWake

\* variant: the refresh fetches with wake=True
RefreshWakeOn == TRUE

\* the wake flag of the refresh's fetch (coordinator.py:166)
RefreshWake == FALSE

\* EinkCanvasDeviceInfoCoordinator._async_update_data (coordinator.py:161-170),
\* run by async_refresh at setup, on request or on schedule: its one call of
\* get_device_info
RefreshCall(p) ==
    /\ task[p].pc \in {"idle", "done"}
    /\ ops < MaxOps
    /\ ops' = ops + 1
    /\ LET r == OpEntry([task[p] EXCEPT !.tries = 0], "get_device_info", RefreshWake)
       IN  Step(p, [r EXCEPT !.by = "refresh", !.calls = r.calls + 1], FALSE)
    /\ UNCHANGED <<clock, bleAutoWake, hasMac, lastWake, stamps>>
    /\ UNCHANGED nonWake

\* the reachability probe of the wake=False branch answers
\* (api_client.py:659-665 get_device_info, 591-597 get_status, 211-212 get_image_bytes)
Gate(p) ==
    /\ task[p].pc = "gate"
    /\ \E ok \in BOOLEAN :
         LET r == [task[p] EXCEPT !.how = IF ok THEN "gate_ok" ELSE "gate_fail"]
         IN  IF GateSkips(ok)
             THEN Step(p, [r EXCEPT !.pc = "done", !.res = "None"], FALSE)
             ELSE Step(p, [r EXCEPT !.pc = "http"], FALSE)
    /\ UNCHANGED <<clock, bleAutoWake, hasMac, lastWake, stamps, ops>>
    /\ UNCHANGED nonWake

\* api_client.py:258-270: the fast path and the cooldown check before the lock
UnlockedDecision(ok, now, last) ==
    IF ok THEN "online"
    ELSE IF CooldownActive(now, last) THEN "cooldown"
    ELSE "lock"

\* variant: no cooldown check under the lock
LockedDecisionBlind(ok, now, last) == IF ok THEN "online_locked" ELSE "wake"

\* api_client.py:274-286: the same two checks again, under the lock
LockedDecision(ok, now, last) ==
    IF ok THEN "online_locked"
    ELSE IF CooldownActive(now, last) THEN "cooldown_locked"
    ELSE "wake"

\* the fast-path probe answers, then the cooldown check and `async with` the lock
\* (api_client.py:258-272); an unlocked asyncio.Lock
\* that nobody waits for is taken without suspending
Ping1(p) ==
    /\ task[p].pc = "ping1"
    /\ \E ok \in BOOLEAN :
         LET d == UnlockedDecision(ok, clock, lastWake)
             r == [task[p] EXCEPT !.elapsed = (~ok /\ (clock - lastWake) >= Cooldown)]
         IN  IF d # "lock" THEN Step(p, Ret(r, d), FALSE)
             ELSE IF lock = NoTask /\ \A q \in Tasks : task[q].pc # "waitlock"
             THEN /\ task' = [task EXCEPT ![p] = [r EXCEPT !.pc = "ping2"]]
                  /\ lock' = p
             ELSE Step(p, [r EXCEPT !.pc = "waitlock", !.waited = TRUE], FALSE)
    /\ UNCHANGED <<clock, bleAutoWake, hasMac, lastWake, stamps, ops>>
    /\ UNCHANGED nonWake

\* a waiter gets the lock (api_client.py:272)
AcquireLock(p) ==
    /\ task[p].pc = "waitlock"
    /\ lock = NoTask
    /\ lock' = p
    /\ task' = [task EXCEPT ![p] = [@ EXCEPT !.pc = "ping2"]]
    /\ UNCHANGED <<clock, bleAutoWake, hasMac, lastWake, stamps, ops>>
    /\ UNCHANGED nonWake

\* variant: an attempt that does not find the peripheral leaves no timestamp
AttemptStampIfFound(last, now, found) == IF found THEN now ELSE last

\* api_client.py:286: `self._last_ble_wake_attempt = now`, before the peripheral
\* is resolved (288-298)
AttemptStamp(last, now, found) == now

\* under the lock: probe again, check the cooldown again, stamp the attempt,
\* resolve the peripheral and import bleak (api_client.py:274-332)
Ping2(p) ==
    /\ task[p].pc = "ping2"
    /\ \E ok \in BOOLEAN, found \in BOOLEAN, bleak \in BOOLEAN :
         LET d == LockedDecision(ok, clock, lastWake)
             r == [task[p] EXCEPT !.elapsed = (~ok /\ (clock - lastWake) >= Cooldown)]
         IN  IF d # "wake"
             THEN /\ Step(p, Ret(r, d), TRUE)
                  /\ UNCHANGED <<lastWake, stamps>>
             ELSE /\ lastWake' = AttemptStamp(lastWake, clock, found)
                  /\ stamps' = Append(stamps, clock)
                  /\ IF ~found THEN Step(p, Ret([r EXCEPT !.ble = TRUE], "notfound"), TRUE)
                     ELSE IF ~bleak THEN Step(p, Ret([r EXCEPT !.ble = TRUE], "nobleak"), TRUE)
                     ELSE Step(p, [r EXCEPT !.ble = TRUE, !.pc = "connect", !.idx = 0], FALSE)
    /\ UNCHANGED <<clock, bleAutoWake, hasMac, ops>>
    /\ UNCHANGED nonWake

(* ---------------- the BLE pulse (api_client.py:322-438, button.py:287-417) ---------------- *)

\* what follows the BLE part: the client sleeps ble_wake_wait_seconds (api_client.py:530-532),
\* the button goes to _refresh_device_info_after_wake (button.py:422-433)
AfterBle(r) ==
    IF r.via = "client"
    THEN IF BleWakeWaitSeconds > 0
         THEN [r EXCEPT !.pc = "postsleep", !.until = clock + BleWakeWaitSeconds, !.idx = 0]
         ELSE [r EXCEPT !.pc = "poll", !.start = clock, !.idx = 0]
    ELSE [r EXCEPT !.pc = "refresh_sleep", !.idx = 0]

\* establish_connection under wait_for(timeout=20) (api_client.py:333-341, button.py:289-297)
Connect(p) ==
    /\ task[p].pc = "connect"
    /\ \E r \in {"ok", "timeout", "error"} :
         IF r = "ok" THEN Step(p, [task[p] EXCEPT !.pc = "write", !.idx = 1], FALSE)
         ELSE Step(p, AfterBle(task[p]), FALSE)
    /\ UNCHANGED <<clock, bleAutoWake, hasMac, lastWake, stamps, ops>>
    /\ UNCHANGED nonWake

\* `except Exception as err: last_err = err`, then the next candidate, or
\* `raise last_err` into the `finally` that disconnects (api_client.py:416-423)
NextChar(r) ==
    IF r.idx < NumWakeChars THEN [r EXCEPT !.pc = "write", !.idx = @ + 1]
    ELSE [r EXCEPT !.pc = "disconnect"]

\* the assert write with response, wait_for(timeout=2) (api_client.py:359-368)
WriteAssert(p) ==
    /\ task[p].pc = "write"
    /\ \E r \in {"ok", "timeout", "error"} :
         CASE r = "ok" -> Step(p, [task[p] EXCEPT !.pc = "release"], FALSE)
           [] r = "timeout" -> Step(p, [task[p] EXCEPT !.pc = "write_nr"], FALSE)
           [] OTHER -> Step(p, NextChar(task[p]), FALSE)
    /\ UNCHANGED <<clock, bleAutoWake, hasMac, lastWake, stamps, ops>>
    /\ UNCHANGED nonWake

\* the assert write without response, after a timeout (api_client.py:375-380)
WriteNoResp(p) ==
    /\ task[p].pc = "write_nr"
    /\ \E r \in {"ok", "error"} :
         IF r = "ok" THEN Step(p, [task[p] EXCEPT !.pc = "release"], FALSE)
         ELSE Step(p, NextChar(task[p]), FALSE)
    /\ UNCHANGED <<clock, bleAutoWake, hasMac, lastWake, stamps, ops>>
    /\ UNCHANGED nonWake

\* the release write, best-effort, then `break` into the `finally` (api_client.py:384-415)
ReleaseWrite(p) ==
    /\ task[p].pc = "release"
    /\ \E r \in {"ok", "error"} :
         Step(p, [task[p] EXCEPT !.pc = "disconnect"], FALSE)
    /\ UNCHANGED <<clock, bleAutoWake, hasMac, lastWake, stamps, ops>>
    /\ UNCHANGED nonWake

\* client.disconnect() under wait_for(timeout=5) (api_client.py:420-431, button.py:348-355)
Disconnect(p) ==
    /\ task[p].pc = "disconnect"
    /\ \E r \in {"ok", "timeout", "error"} :
         Step(p, AfterBle(task[p]), FALSE)
    /\ UNCHANGED <<clock, bleAutoWake, hasMac, lastWake, stamps, ops>>
    /\ UNCHANGED nonWake

(* ---------------- waiting for HTTP after the pulse (api_client.py:530-568) ---------------- *)

\* variant: the loop has no time limit
PollGoesOnForever(now, s) == TRUE

\* the loop test `(time.monotonic() - start) < self._http_online_timeout_seconds`
PollGoesOn(now, s) == (now - s) < HttpOnlineTimeoutSeconds

\* asyncio.sleep(ble_wake_wait_seconds) ends; the wait loop starts (api_client.py:532, 551-553)
PostSleep(p) ==
    /\ task[p].pc = "postsleep"
    /\ clock >= task[p].until
    /\ Step(p, [task[p] EXCEPT !.pc = "poll", !.start = clock, !.until = 0], FALSE)
    /\ UNCHANGED <<clock, bleAutoWake, hasMac, lastWake, stamps, ops>>
    /\ UNCHANGED nonWake

\* one probe of the wait loop answers (api_client.py:553-562)
Poll(p) ==
    /\ task[p].pc = "poll"
    /\ \E ok \in BOOLEAN :
         IF ok THEN Step(p, Ret([task[p] EXCEPT !.start = 0], "woken"), TRUE)
         ELSE Step(p, [task[p] EXCEPT !.pc = "pollsleep", !.until = clock + PollSleepSeconds], FALSE)
    /\ UNCHANGED <<clock, bleAutoWake, hasMac, lastWake, stamps, ops>>
    /\ UNCHANGED nonWake

\* asyncio.sleep(2) ends and the loop test is evaluated (api_client.py:552, 562-568)
PollSleep(p) ==
    /\ task[p].pc = "pollsleep"
    /\ clock >= task[p].until
    /\ IF PollGoesOn(clock, task[p].start)
       THEN Step(p, [task[p] EXCEPT !.pc = "poll", !.until = 0], FALSE)
       ELSE Step(p, Ret([task[p] EXCEPT !.until = 0, !.start = 0], "timeout"), TRUE)
    /\ UNCHANGED <<clock, bleAutoWake, hasMac, lastWake, stamps, ops>>
    /\ UNCHANGED nonWake

(* ---------------- the operation's own HTTP request ---------------- *)

\* the GET of the operation answers (api_client.py:666-741, 598-633, 214-243); inside
\* the button's refresh loop a failure is retried after asyncio.sleep(2) (button.py:447-464)
Http(p) ==
    /\ task[p].pc = "http"
    /\ \E o \in {"data", "None"} :
         LET r == [task[p] EXCEPT !.sent = TRUE, !.res = o]
         IN  IF r.tries > 0 /\ o = "None" /\ r.tries < PostWakeMaxAttempts
             THEN Step(p, [r EXCEPT !.pc = "retry_sleep", !.until = clock + PollSleepSeconds], FALSE)
             ELSE Step(p, [r EXCEPT !.pc = "done"], FALSE)
    /\ UNCHANGED <<clock, bleAutoWake, hasMac, lastWake, stamps, ops>>
    /\ UNCHANGED nonWake

(* ---------------- the Wake (Bluetooth) button (button.py:254-473) ---------------- *)

\* async_press up to its first await: resolve the peripheral, import bleak
\* (button.py:257-288); the button exists only with a MAC (button.py:82)
Press(p) ==
    /\ task[p].pc \in {"idle", "done"}
    /\ ops < MaxOps
    /\ ops' = ops + 1
    /\ hasMac
    /\ \E found \in BOOLEAN, bleak \in BOOLEAN :
         LET r == [task[p] EXCEPT !.kind = "press", !.wake = FALSE,
                                  !.via = "button", !.by = "caller", !.calls = 0, !.tries = 0, !.how = "none", !.at = 0, !.near = FALSE,
                                  !.elapsed = FALSE, !.arr = FALSE, !.waited = FALSE, !.sent = FALSE,
                                  !.ble = TRUE, !.res = "none"]
         IN  IF found /\ bleak THEN Step(p, [r EXCEPT !.pc = "connect"], FALSE)
             ELSE Step(p, [r EXCEPT !.pc = "done", !.res = "None"], FALSE)
    /\ UNCHANGED <<clock, bleAutoWake, hasMac, lastWake, stamps>>
    /\ UNCHANGED nonWake

\* asyncio.sleep(POST_WAKE_INITIAL_DELAY_SECONDS) ends, first get_device_info(wake=True)
\* (button.py:433-451)
RefreshSleep(p) ==
    /\ task[p].pc = "refresh_sleep"
    /\ ops < MaxOps
    /\ ops' = ops + 1
    /\ Step(p, OpEntry([task[p] EXCEPT !.tries = 1], "get_device_info", TRUE), FALSE)
    /\ UNCHANGED <<clock, bleAutoWake, hasMac, lastWake, stamps>>
    /\ UNCHANGED nonWake

\* asyncio.sleep(2) between refresh attempts ends (button.py:463-464, 447-451)
RetrySleep(p) ==
    /\ task[p].pc = "retry_sleep"
    /\ clock >= task[p].until
    /\ ops < MaxOps
    /\ ops' = ops + 1
    /\ Step(p, OpEntry([task[p] EXCEPT !.tries = @ + 1, !.until = 0], "get_device_info", TRUE), FALSE)
    /\ UNCHANGED <<clock, bleAutoWake, hasMac, lastWake, stamps>>
    /\ UNCHANGED nonWake

(* ---------------- time ---------------- *)

\* a task awaits the answer of _async_http_ping, which gives up after its
\* timeout (api_client.py:164-188)
ProbePending == \E p \in Tasks : task[p].pc \in {"gate", "ping1", "ping2", "poll"}

\* the monotonic clock advances while the tasks are suspended; a pending probe
\* answers before a tick longer than its timeout has passed
Tick ==
    /\ clock + TickSeconds <= MaxClock
    /\ ProbePending => PingTimeoutSeconds >= TickSeconds
    /\ clock' = clock + TickSeconds
    /\ UNCHANGED <<bleAutoWake, hasMac, lastWake, lock, stamps, ops, task>>
    /\ UNCHANGED nonWake

\* concurrent callers of async_ensure_awake and the Wake button; every operation
\* with wake=True enters async_ensure_awake the same way (api_client.py:209, 589, 650),
\* get_device_info stands for them
Next ==
    \/ \E p \in Tasks : Call(p, {"get_device_info"}, {TRUE})
    \/ \E p \in Tasks : Ping1(p)
    \/ \E p \in Tasks : AcquireLock(p)
    \/ \E p \in Tasks : Ping2(p)
    \/ \E p \in Tasks : Connect(p)
    \/ \E p \in Tasks : WriteAssert(p)
    \/ \E p \in Tasks : WriteNoResp(p)
    \/ \E p \in Tasks : ReleaseWrite(p)
    \/ \E p \in Tasks : Disconnect(p)
    \/ \E p \in Tasks : PostSleep(p)
    \/ \E p \in Tasks : Poll(p)
    \/ \E p \in Tasks : PollSleep(p)
    \/ \E p \in Tasks : Http(p)
    \/ \E p \in Tasks : Press(p)
    \/ \E p \in Tasks : RefreshSleep(p)
    \/ \E p \in Tasks : RetrySleep(p)
    \/ Tick

Spec == Init /\ [][Next]_vars

\* one caller at a time, every operation and both values of its wake flag
NextOps ==
    \/ \E p \in Solo : Call(p, Kinds, BOOLEAN)
    \/ \E p \in Solo : Gate(p)
    \/ \E p \in Solo : Ping1(p)
    \/ \E p \in Solo : Ping2(p)
    \/ \E p \in Solo : Connect(p)
    \/ \E p \in Solo : WriteAssert(p)
    \/ \E p \in Solo : WriteNoResp(p)
    \/ \E p \in Solo : ReleaseWrite(p)
    \/ \E p \in Solo : Disconnect(p)
    \/ \E p \in Solo : PostSleep(p)
    \/ \E p \in Solo : Poll(p)
    \/ \E p \in Solo : PollSleep(p)
    \/ \E p \in Solo : Http(p)
    \/ Tick

SpecOps == Init /\ [][NextOps]_vars

\* the coordinator's refresh next to callers that wake the device
NextRefresh ==
    \/ \E p \in Tasks : RefreshCall(p)
    \/ \E p \in Tasks : Gate(p)
    \/ \E p \in Tasks : Call(p, {"get_device_info"}, {TRUE})
    \/ \E p \in Tasks : Ping1(p)
    \/ \E p \in Tasks : AcquireLock(p)
    \/ \E p \in Tasks : Ping2(p)
    \/ \E p \in Tasks : Connect(p)
    \/ \E p \in Tasks : WriteAssert(p)
    \/ \E p \in Tasks : WriteNoResp(p)
    \/ \E p \in Tasks : ReleaseWrite(p)
    \/ \E p \in Tasks : Disconnect(p)
    \/ \E p \in Tasks : PostSleep(p)
    \/ \E p \in Tasks : Poll(p)
    \/ \E p \in Tasks : PollSleep(p)
    \/ \E p \in Tasks : Http(p)
    \/ Tick

SpecRefresh == Init /\ [][NextRefresh]_vars

\* every probe answers within its timeout, every sleep ends and the clock goes
\* on (api_client.py:164-188, 532, 562)
FairOps == SpecOps /\ WF_vars(NextOps)

(* ---------------- the device-info snapshot (coordinator.py, __init__.py, ---------------- *)
(* ---------------- media_player.py, button.py)                           ---------------- *)

\* what get_device_info may return: 0 for None, else a snapshot
Fetched == 0..MaxSnap

\* _on_coordinator_update (__init__.py:133-139): the runtime cache after the listener ran
RuntimeListener(data, rt) == IF data # 0 THEN data ELSE rt

\* EinkDisplayMediaPlayer._apply_device_info (media_player.py:162-186): the runtime
\* cache and the player's copy after it ran
Apply(di, rt) == [rt |-> IF di # 0 THEN di ELSE rt, pl |-> di]

\* the coordinator's listeners run: first _on_coordinator_update, then the media
\* player's _handle_coordinator_update (media_player.py:156-160)
Notify(data, rt) ==
    LET rt1 == RuntimeListener(data, rt)
    IN  Apply(IF data # 0 THEN data ELSE rt1, rt1)

\* variant: every pushed snapshot is taken as new
PushAcceptsAlways(cur, d) == TRUE

\* push(snapshot) of the push-only coordinator (async_set_updated_data): a value
\* identical to the current data is skipped, any other replaces it
PushAccepts(cur, d) == d # cur

\* variant: an accepted push replaces the data without telling the listeners
PushQuiet(d, cur, ok, rt, pl) ==
    IF PushAccepts(cur, d)
    THEN [data |-> d, ok |-> TRUE, rt |-> rt, pl |-> pl,
          accepted |-> TRUE, notified |-> 0, persisted |-> 1]
    ELSE [data |-> cur, ok |-> ok, rt |-> rt, pl |-> pl,
          accepted |-> FALSE, notified |-> 0, persisted |-> 0]

\* the state after push(d): [data, ok, rt, pl], with the notifications and
\* persistence writes the push caused; an accepted push is marked a successful
\* update, saved (fire-and-forget) and the listeners are notified once
Push(d, cur, ok, rt, pl) ==
    IF PushAccepts(cur, d)
    THEN LET n == Notify(d, rt)
         IN  [data |-> d, ok |-> TRUE, rt |-> n.rt, pl |-> n.pl,
              accepted |-> TRUE, notified |-> 1, persisted |-> 1]
    ELSE [data |-> cur, ok |-> ok, rt |-> rt, pl |-> pl,
          accepted |-> FALSE, notified |-> 0, persisted |-> 0]

\* the summary part of a run record
Summary(r) ==
    [handler |-> r.handler, fetched |-> r.fetched, pushed |-> r.pushed,
     accepted |-> r.accepted, notified |-> r.notified, persisted |-> r.persisted,
     coordBefore |-> r.coordBefore]

\* the handler's name and fetch result are recorded with the data it found;
\* pushed: it called push; acc, n, w: the push replaced the data, the
\* notifications and the persistence writes of this run
Record(h, d, pushed, acc, n, w) ==
    lastRun' = [handler |-> h, fetched |-> d, pushed |-> pushed, accepted |-> acc,
             notified |-> n, persisted |-> w, coordBefore |-> coordData,
             runtimeBefore |-> runtimeInfo, playerBefore |-> playerInfo,
             prev |-> Summary(lastRun)]

\* the four snapshot variables become the fields of record r
Becomes(r) ==
    /\ coordData' = r.data
    /\ lastOk' = r.ok
    /\ runtimeInfo' = r.rt
    /\ playerInfo' = r.pl

\* variant: a failed fetch is stored like any other result
RefreshedDataStoresNone(d, cur) == d

\* coordinator.py:135-157, 166-170: the data after a refresh that fetched d; None
\* raises UpdateFailed and `self.data = data` is not reached
RefreshedData(d, cur) == IF d # 0 THEN d ELSE cur

\* EinkCanvasDeviceInfoCoordinator._handle_refresh with _async_update_data
\* (coordinator.py:135-185): get_device_info(wake=False); None raises UpdateFailed,
\* the data stays; the listeners run in the `finally`
CoordinatorRefresh ==
    /\ \E d \in Fetched :
         LET data == RefreshedData(d, coordData)
             n == Notify(data, runtimeInfo)
         IN  /\ Becomes([data |-> data, ok |-> (d # 0), rt |-> n.rt, pl |-> n.pl])
             /\ Record("refresh", d, FALSE, FALSE, 1, 0)
    /\ UNCHANGED nonCoord

\* a handler that stores and pushes only a result d that is not empty
GuardedPush(h, d) ==
    LET p == Push(d, coordData, lastOk, d, playerInfo)
    IN  IF d # 0
        THEN Becomes(p) /\ Record(h, d, TRUE, p.accepted, p.notified, p.persisted)
        ELSE /\ UNCHANGED <<coordData, lastOk, runtimeInfo, playerInfo>>
             /\ Record(h, d, FALSE, FALSE, 0, 0)

\* handle_refresh_device_info (__init__.py:672-685) and the refresh after an
\* upload (__init__.py:713-716, 876-879)
ServiceRefresh ==
    /\ \E d \in Fetched : GuardedPush("service", d)
    /\ UNCHANGED nonCoord

\* one attempt of the button's post-wake refresh (button.py:448-461)
ButtonRefresh ==
    /\ \E d \in Fetched : GuardedPush("button", d)
    /\ UNCHANGED nonCoord

\* EinkDisplayMediaPlayer._async_fetch_device_info (media_player.py:188-198):
\* the result of the fetch is pushed and applied as it is
MediaPlayerFetch ==
    /\ \E d \in Fetched :
         LET p == Push(d, coordData, lastOk, runtimeInfo, playerInfo)
             a == Apply(d, p.rt)
         IN  /\ Becomes([data |-> p.data, ok |-> p.ok, rt |-> a.rt, pl |-> a.pl])
             /\ Record("player", d, TRUE, p.accepted, p.notified, p.persisted)
    /\ UNCHANGED nonCoord

\* handle_update_settings (__init__.py:638-670): after the device accepted the
\* settings the cached snapshot merged with them is stored and pushed; d = 0 stands
\* for update_settings returning False
UpdateSettings ==
    /\ \E d \in Fetched : GuardedPush("settings", d)
    /\ UNCHANGED nonCoord

\* _get_screen_resolution (__init__.py:506-525): fetches only when the runtime
\* cache is empty and stores a result that is not empty
ScreenResolution ==
    /\ runtimeInfo = 0
    /\ \E d \in Fetched :
         /\ runtimeInfo' = d
         /\ Record("resolution", d, FALSE, FALSE, 0, 0)
    /\ UNCHANGED <<coordData, lastOk, playerInfo>>
    /\ UNCHANGED nonCoord

NextCoord ==
    \/ CoordinatorRefresh
    \/ ServiceRefresh
    \/ ButtonRefresh
    \/ MediaPlayerFetch
    \/ UpdateSettings
    \/ ScreenResolution

InitSnapshots == InitWake({FALSE}) /\ InitCoord(Fetched) /\ InitUpload /\ InitLog /\ InitReader /\ InitPulse /\ InitRestart({NoStore}, {0}) /\ InitApi /\ InitReply({NoReply}) /\ InitServices /\ InitCache({1}, {1})

SpecCoord == InitSnapshots /\ [][NextCoord]_vars

(* ---------------- the restart: load_cached, the first refresh, the ---------------- *)
(* ---------------- last-update sensor (__init__.py, sensor.py)      ---------------- *)

\* the persisted records: none, or a snapshot with its capture time
Stores == {NoStore} \cup [data : 1..MaxSnap, at : 1..MaxStamp]

\* variant: the restored snapshot is stamped with the time of the restore
RestoredStampIsNow(at, now) == now

\* load_cached restores the original capture timestamp
RestoredStamp(at, now) == at

\* EinkLastUpdateSensor.native_value (sensor.py:241-244)
NativeValue == IF snap.at # 0 THEN snap.at ELSE sensorRestored

\* snap.at is set to t by `by`
Stamped(t, by, restored) ==
    restoreLog' = [restoredAt |-> restored, by |-> by,
                   changes |-> IF t # snap.at THEN restoreLog.changes + 1 ELSE restoreLog.changes]

\* coordinator.async_load_cached_data() (__init__.py:119-120): a persisted
\* snapshot becomes the current data, with its timestamp
LoadCached ==
    /\ boot = "created"
    /\ boot' = "loaded"
    /\ IF store.data # 0
       THEN LET t == RestoredStamp(store.at, wallClock)
            IN  /\ snap' = [data |-> store.data, at |-> t]
                /\ Stamped(t, "load", store.at)
       ELSE UNCHANGED <<snap, restoreLog>>
    /\ UNCHANGED <<wallClock, store, sensorRestored, haState>>
    /\ UNCHANGED nonRestart

\* coordinator.async_refresh() at setup (__init__.py:122-123) and later: a
\* fetched snapshot becomes the current data, captured now; a failed fetch
\* leaves everything (coordinator.py:135-170)
RestartRefresh ==
    /\ boot # "created"
    /\ boot' = IF boot = "loaded" THEN "set_up" ELSE boot
    /\ \E d \in Fetched :
         IF d # 0
         THEN /\ snap' = [data |-> RefreshedData(d, snap.data), at |-> wallClock]
              /\ Stamped(wallClock, "refresh", restoreLog.restoredAt)
         ELSE UNCHANGED <<snap, restoreLog>>
    /\ UNCHANGED <<wallClock, store, sensorRestored, haState>>
    /\ UNCHANGED nonRestart

\* EinkLastUpdateSensor.async_added_to_hass (sensor.py:213-232): only when the
\* coordinator has no timestamp the sensor's last state is restored
SensorAdded ==
    /\ boot = "set_up"
    /\ boot' = "running"
    /\ sensorRestored' = IF snap.at # 0 THEN sensorRestored ELSE haState
    /\ UNCHANGED <<wallClock, store, snap, haState, restoreLog>>
    /\ UNCHANGED nonRestart

\* push(snapshot) after a successful action: a snapshot that differs replaces
\* the data, is stamped now and saved with its timestamp
RestartPush ==
    /\ boot = "running"
    /\ \E d \in 1..MaxSnap :
         IF PushAccepts(snap.data, d)
         THEN /\ snap' = [data |-> d, at |-> wallClock]
              /\ store' = [data |-> d, at |-> wallClock]
              /\ Stamped(wallClock, "push", restoreLog.restoredAt)
         ELSE UNCHANGED <<snap, store, restoreLog>>
    /\ UNCHANGED <<wallClock, boot, sensorRestored, haState>>
    /\ UNCHANGED nonRestart

\* the wall clock goes on
WallTick ==
    /\ wallClock < MaxWall
    /\ wallClock' = wallClock + 1
    /\ UNCHANGED <<store, snap, boot, sensorRestored, haState, restoreLog>>
    /\ UNCHANGED nonRestart

NextRestart ==
    \/ LoadCached
    \/ RestartRefresh
    \/ SensorAdded
    \/ RestartPush
    \/ WallTick

InitRestarts == InitWake({FALSE}) /\ InitCoord({0}) /\ InitUpload /\ InitLog /\ InitReader /\ InitPulse /\ InitRestart(Stores, 0..MaxStamp) /\ InitApi /\ InitReply({NoReply}) /\ InitServices /\ InitCache({1}, {1})

SpecRestart == InitRestarts /\ [][NextRestart]_vars

(* ---------------- the API-client operations, one by one (api_client.py) ---------------- *)

\* one row of the table of operations
\*   entry    "flag": async_ensure_awake with wake=True, else the probe;
\*            "ensure": async_ensure_awake always
\*   defects  the ways a required argument can be missing
\*   checked  the defects tested before the first await
\*   late     the defects tested after async_ensure_awake
\*   timed    the HTTP request runs inside async_timeout.timeout(...)
\*   parses   the body of a 200 response is parsed
\*   sentinel the value returned on failure
OpRow(entry, defects, checked, late, timed, parses, sentinel) ==
    [entry |-> entry, defects |-> defects, checked |-> checked, late |-> late,
     timed |-> timed, parses |-> parses, sentinel |-> sentinel]

ApiOps ==
    {"get_status", "get_device_info", "get_image_bytes", "show_next", "sleep", "reboot",
     "clear_screen", "whistle", "update_settings", "show_image_by_name", "show_playlist",
     "upload_image", "get_galleries", "get_gallery_images", "upload_images_multi",
     "upload_dithered_image_data", "delete_image", "create_gallery", "delete_gallery",
     "get_playlists", "get_playlist", "put_playlist", "delete_playlist"}

\* the operations of EinkCanvasApiClient as their code has them
Operation(op) ==
    CASE op = "get_status" -> OpRow("flag", {}, {}, {}, TRUE, TRUE, "None")
      [] op = "get_device_info" -> OpRow("flag", {}, {}, {}, TRUE, TRUE, "None")
      [] op = "get_image_bytes" -> OpRow("flag", {"no_path"}, {"no_path"}, {}, TRUE, FALSE, "None")
      [] op = "show_next" -> OpRow("ensure", {}, {}, {}, TRUE, FALSE, "False")
      [] op = "sleep" -> OpRow("ensure", {}, {}, {}, TRUE, FALSE, "False")
      [] op = "reboot" -> OpRow("ensure", {}, {}, {}, TRUE, FALSE, "False")
      [] op = "clear_screen" -> OpRow("ensure", {}, {}, {}, TRUE, FALSE, "False")
      [] op = "whistle" -> OpRow("ensure", {}, {}, {}, TRUE, FALSE, "False")
      [] op = "update_settings" ->
            OpRow("ensure", {"no_settings"}, {"no_settings"}, {}, TRUE, FALSE, "False")
      [] op = "show_image_by_name" ->
            OpRow("ensure", {"no_playlist"}, {}, {"no_playlist"}, FALSE, FALSE, "False")
      [] op = "show_playlist" -> OpRow("ensure", {"no_name"}, {"no_name"}, {}, TRUE, FALSE, "False")
      [] op = "upload_image" -> OpRow("ensure", {}, {}, {}, TRUE, TRUE, "None")
      [] op = "get_galleries" -> OpRow("ensure", {}, {}, {}, FALSE, TRUE, "[]")
      [] op = "get_gallery_images" -> OpRow("ensure", {}, {}, {}, FALSE, TRUE, "{data: []}")
      [] op = "upload_images_multi" ->
            OpRow("ensure", {"no_images"}, {"no_images"}, {}, TRUE, FALSE, "False")
      [] op = "upload_dithered_image_data" -> OpRow("ensure", {}, {}, {}, TRUE, FALSE, "False")
      [] op = "delete_image" -> OpRow("ensure", {}, {}, {}, TRUE, FALSE, "False")
      [] op = "create_gallery" -> OpRow("ensure", {"no_name"}, {}, {}, TRUE, FALSE, "False")
      [] op = "delete_gallery" -> OpRow("ensure", {"no_name"}, {}, {}, TRUE, FALSE, "False")
      [] op = "get_playlists" -> OpRow("ensure", {}, {}, {}, FALSE, TRUE, "[]")
      [] op = "get_playlist" -> OpRow("ensure", {"no_name"}, {"no_name"}, {}, TRUE, TRUE, "None")
      [] op = "put_playlist" ->
            OpRow("ensure", {"empty_payload", "no_name"}, {"empty_payload"}, {}, TRUE, FALSE, "False")
      [] op = "delete_playlist" -> OpRow("ensure", {"no_name"}, {"no_name"}, {}, TRUE, FALSE, "False")

\* a value that is no string
NotAString == <<"<number>">>

\* the characters of the string arguments: a letter, a blank, a slash, a dot,
\* an at sign
White == {" "}
GalleryNames == UNION {[1..n -> {"a", " ", "/", "."}] : n \in 0..MaxName}
ImagePaths == UNION {[1..n -> {"/", "@", "e"}] : n \in 0..MaxName} \cup {NotAString}

\* str.strip(): without the leading and trailing characters of the set
StripOf(s, set) ==
    LET ink == {i \in 1..Len(s) : s[i] \notin set}
    IN  IF ink = {} THEN <<>>
        ELSE SubSeq(s, CHOOSE i \in ink : \A j \in ink : i <= j,
                       CHOOSE i \in ink : \A j \in ink : i >= j)

\* s without its leading characters of the set
RECURSIVE DropRun(_, _)
DropRun(s, set) == IF s # <<>> /\ s[1] \in set THEN DropRun(Tail(s), set) ELSE s

\* re.sub(r"\s+", "_", g) and re.sub(r"_+", "_", g): every run of characters of the
\* set becomes one underscore
RECURSIVE ReplaceRuns(_, _)
ReplaceRuns(s, set) ==
    IF s = <<>> THEN <<>>
    ELSE IF s[1] \in set THEN <<"_">> \o ReplaceRuns(DropRun(s, set), set)
    ELSE <<s[1]>> \o ReplaceRuns(Tail(s), set)

\* re.sub(r"[^A-Za-z0-9._-]", "_", g)
ReplaceUnsafe(s) == [i \in 1..Len(s) |-> IF s[i] \in {"a", "e", ".", "_", "-"} THEN s[i] ELSE "_"]

DefaultGallery == <<"d", "e", "f", "a", "u", "l", "t">>

\* _sanitize_gallery (api_client.py:90-99)
SanitizeGallery(gallery) ==
    LET g == StripOf(gallery, White)
        h == StripOf(ReplaceRuns(ReplaceUnsafe(ReplaceRuns(g, White)), {"_"}), {".", "_", "-"})
    IN  IF g = <<>> THEN DefaultGallery
        ELSE IF h = <<>> THEN DefaultGallery
        ELSE h

GalleryOps == {"create_gallery", "delete_gallery"}

\* the configured host
DeviceHost == <<"h">>

\* f"http://{self._host}{image_path}" (api_client.py:214)
Url(host, path) == <<"http://">> \o host \o path

\* variant: every non-empty string is taken as a path
PathRefusedIfEmpty(p) == p = NotAString \/ Len(p) = 0

\* get_image_bytes refuses its argument (api_client.py:201-205)
PathRefused(p) ==
    IF p = NotAString \/ Len(p) = 0 THEN TRUE
    ELSE p[1] # "/"

\* the string arguments an operation may be called with
Texts(op) ==
    IF op \in GalleryOps THEN GalleryNames
    ELSE IF op = "get_image_bytes" THEN ImagePaths
    ELSE {<<>>}

\* what is wrong with a string argument: a gallery name that is empty or blank,
\* an image path that is no string, empty or not absolute
Defect(op, text) ==
    IF op \in GalleryOps
    THEN IF \A i \in 1..Len(text) : text[i] \in White THEN "no_name" ELSE "ok"
    ELSE IF text = NotAString THEN "no_path"
    ELSE IF Len(text) = 0 THEN "no_path"
    ELSE IF text[1] = "/" THEN "ok" ELSE "no_path"

\* the tests an operation makes before its first await: the table's, that of
\* get_image_bytes on its path (api_client.py:201-205) and that of the gallery
\* operations on the sanitized name (api_client.py:1559-1562, 1591-1594)
RefusedAtOnce(op, arg, text) ==
    IF op = "get_image_bytes" THEN PathRefused(text)
    ELSE IF op \in GalleryOps THEN SanitizeGallery(text) = <<>>
    ELSE arg \in Operation(op).checked

\* the value an operation returns for a 200 response it could use
Success(op) ==
    CASE Operation(op).sentinel = "False" -> "True"
      [] op = "upload_image" -> "path"
      [] OTHER -> "data"

\* what a probe or a request may meet: a response with some status, a refused
\* connection, a timeout of the transfer, or a peer that accepts the connection
\* and never answers
Statuses == {"200", "404", "500"}
ProbeAnswers == Statuses \cup {"refused", "timeout", "silent"}

\* variant: only a 200 response counts as reachable
HttpPingOnly200(answer) == answer = "200"

\* _async_http_ping (api_client.py:164-188): any response means reachable; every
\* exception, the timeout of async_timeout included, means unreachable
HttpPing(answer) == answer \in Statuses

\* what a request may meet: a usable 200 response, a 200 response whose body
\* cannot be parsed, another status, and the failures of a probe
RequestOutcomes == {"ok", "bad_body", "status", "refused", "timeout", "silent"}

\* the operation returns v
ApiReturn(r, v) == [r EXCEPT !.pc = "done", !.res = v]

\* an operation is called: the tests before its first await (api_client.py:201-205,
\* 858-860, 994-996, 1439-1441, 1559-1562, 1591-1594, 1643-1645, 1674-1676,
\* 1701-1703), then async_ensure_awake or the probe
ApiCall ==
    /\ call.pc \in {"idle", "done"}
    /\ apiCalls < MaxCalls
    /\ apiCalls' = apiCalls + 1
    /\ \E op \in ApiOps, w \in BOOLEAN, n \in 0..MaxRetries :
         \E arg \in {"ok"} \cup Operation(op).defects, text \in Texts(op) :
            /\ Operation(op).entry = "ensure" => w
            /\ op # "upload_image" => n = 1
            /\ (op \in GalleryOps \/ op = "get_image_bytes") => arg = Defect(op, text)
            /\ LET r == [IdleCall EXCEPT !.op = op, !.arg = arg, !.wake = w, !.n = n,
                                         !.text = text]
               IN  call' = IF RefusedAtOnce(op, arg, text) \/ n = 0
                           THEN ApiReturn(r, Operation(op).sentinel)
                           ELSE [r EXCEPT !.pc = IF w THEN "awake" ELSE "gate"]
    /\ UNCHANGED nonApi

\* async_ensure_awake returns: at once with auto-wake off or no MAC, after one
\* probe when the device answers, after a BLE wake otherwise (api_client.py:245-568);
\* then show_image_by_name's test of the playlist (api_client.py:948-953)
ApiAwake ==
    /\ call.pc = "awake"
    /\ \E how \in {"off", "online", "woken"} :
         LET r == [call EXCEPT !.probes = IF how = "off" THEN @ ELSE @ + 1,
                               !.ble = @ \/ how = "woken"]
         IN  call' = IF call.arg \in Operation(call.op).late
                     THEN ApiReturn(r, Operation(call.op).sentinel)
                     ELSE [r EXCEPT !.pc = "http"]
    /\ UNCHANGED apiCalls
    /\ UNCHANGED nonApi

\* the probe of the wake=False branch answers (api_client.py:211-212, 591-597,
\* 659-665)
ApiGate ==
    /\ call.pc = "gate"
    /\ \E answer \in ProbeAnswers :
         LET r == [call EXCEPT !.probes = @ + 1, !.answer = answer, !.reach = HttpPing(answer)]
         IN  call' = IF r.reach THEN [r EXCEPT !.pc = "http"]
                     ELSE ApiReturn(r, Operation(call.op).sentinel)
    /\ UNCHANGED apiCalls
    /\ UNCHANGED nonApi

\* the exception a failed request ends in
Raised(out) ==
    CASE out = "refused" -> "ClientError"
      [] out \in {"timeout", "silent"} -> "TimeoutError"
      [] out = "bad_body" -> "JSONDecodeError"

\* variant: only connection errors are handled
HandledOnlyClientError(op, exc) == exc = "ClientError"

\* every operation ends in `except Exception` (api_client.py:231, 621, 729, 756,
\* 773, 790, 829, 852, 875, 976, 1021, 1147, 1375, 1414, 1472, 1515, 1548, 1580,
\* 1612, 1632, 1668, 1695, 1721)
Handled(op, exc) == TRUE

\* the operation after exception exc of its request: clear_screen probes the
\* device (api_client.py:812-828), upload_image tries again or gives up
\* (api_client.py:1112-1146), the others return their sentinel
AfterException(r, exc) ==
    IF ~Handled(r.op, exc) THEN [r EXCEPT !.pc = "done", !.raised = TRUE]
    ELSE IF r.op = "clear_screen" /\ exc \in {"ClientError", "TimeoutError"}
         THEN [r EXCEPT !.pc = "recover"]
    ELSE IF r.op = "upload_image" /\ exc \in {"ClientError", "TimeoutError"}
              /\ r.attempt < r.n - 1
         THEN [r EXCEPT !.pc = "backoff"]
    ELSE ApiReturn(r, Operation(r.op).sentinel)

\* the operation after a 200 response whose body cannot be parsed: upload_image
\* builds the default path (api_client.py:1100-1105), the other parsing
\* operations fail (api_client.py:611, 687-720, 1370-1374, 1409-1413, 1627-1631,
\* 1656-1660)
AfterBadBody(r) ==
    IF r.op = "upload_image" THEN ApiReturn(r, "path")
    ELSE AfterException(r, Raised("bad_body"))

\* the HTTP request of the operation ends; a request that is not under
\* async_timeout and is never answered ends when the session gives up, if it does
ApiRequest ==
    /\ call.pc = "http"
    /\ \E out \in RequestOutcomes, gives_up \in BOOLEAN :
         LET row == Operation(call.op)
             r == [call EXCEPT !.requests = @ + 1, !.cause = out,
                               !.bare = IF row.timed THEN @ ELSE @ + 1,
                               !.url = IF call.op = "get_image_bytes"
                                       THEN Url(DeviceHost, call.text) ELSE @,
                               !.sent = IF call.op \in GalleryOps
                                        THEN SanitizeGallery(call.text) ELSE @]
         IN  /\ out = "bad_body" => row.parses
             /\ (out # "silent" \/ row.timed) => gives_up
             /\ call' = CASE out = "ok" -> ApiReturn(r, Success(call.op))
                          [] out = "status" -> ApiReturn(r, row.sentinel)
                          [] out = "bad_body" -> AfterBadBody(r)
                          [] out = "silent" /\ ~gives_up -> [r EXCEPT !.pc = "hung"]
                          [] OTHER -> AfterException(r, Raised(out))
    /\ UNCHANGED apiCalls
    /\ UNCHANGED nonApi

\* clear_screen's probe after a failed request (api_client.py:825-828)
ApiRecover ==
    /\ call.pc = "recover"
    /\ \E answer \in ProbeAnswers :
         LET r == [call EXCEPT !.probes = @ + 1, !.answer = answer, !.reach = HttpPing(answer)]
         IN  call' = ApiReturn(r, IF r.reach THEN "True" ELSE "False")
    /\ UNCHANGED apiCalls
    /\ UNCHANGED nonApi

\* upload_image's asyncio.sleep ends, the next attempt begins (api_client.py:1143, 1052)
ApiBackoff ==
    /\ call.pc = "backoff"
    /\ call' = [call EXCEPT !.pc = "awake", !.attempt = @ + 1]
    /\ UNCHANGED apiCalls
    /\ UNCHANGED nonApi

NextApi ==
    \/ ApiCall
    \/ ApiAwake
    \/ ApiGate
    \/ ApiRequest
    \/ ApiRecover
    \/ ApiBackoff

InitApis == InitWake({FALSE}) /\ InitCoord({0}) /\ InitUpload /\ InitLog /\ InitReader /\ InitPulse /\ InitRestart({NoStore}, {0}) /\ InitApi /\ InitReply({NoReply}) /\ InitServices /\ InitCache({1}, {1})

SpecApi == InitApis /\ [][NextApi]_vars

(* ---------------- the path upload_image returns (api_client.py:1086-1105, ---------------- *)
(* ---------------- 1336-1352)                                              ---------------- *)

\* result.get("path") of a body without the key
NoPathKey == <<"<absent>">>

\* upload_image returned None
NoPath == <<"<None>">>

\* the strings a device may send as path: "/" and a directory or file name
PathStrings == UNION {[1..n -> {"/", "d"}] : n \in 0..MaxPath}

\* the 200 responses: every transport, filename, gallery and body
Replies ==
    {[transport |-> t, filename |-> f, gallery |-> g, json |-> j, path |-> p,
      done |-> FALSE, result |-> <<>>] :
        t \in {"strict", "lenient"}, f \in {"f.jpg", "g.png"}, g \in {"default", "art"},
        j \in {"object"}, p \in PathStrings \cup {NoPathKey, NotAString}}
    \cup
    {[transport |-> t, filename |-> f, gallery |-> g, json |-> j, path |-> NoPathKey,
      done |-> FALSE, result |-> <<>>] :
        t \in {"strict", "lenient"}, f \in {"f.jpg", "g.png"}, g \in {"default", "art"},
        j \in {"other", "invalid"}}

\* f"/gallerys/{gallery}/{filename}"
DefaultPath(gallery, filename) == <<"/", "gallerys", "/", gallery, "/", filename>>

\* isinstance(path, str) and path
IsNonEmptyString(p) == p \notin {NoPathKey, NotAString} /\ Len(p) > 0

\* path.endswith("/")
EndsWithSlash(p) == Len(p) > 0 /\ p[Len(p)] = "/"

\* api_client.py:1094-1099, 1343-1349: the path made of a parsed object
FromObject(p, gallery, filename) ==
    IF IsNonEmptyString(p)
    THEN IF EndsWithSlash(p) THEN p \o <<filename>> ELSE p
    ELSE DefaultPath(gallery, filename)

\* api_client.py:1086-1105 with the handler at 1147-1149: json.loads, then
\* result.get; JSONDecodeError gives the default path, the AttributeError of a
\* body that is no object reaches `except Exception` and None is returned
StrictPath(r) ==
    CASE r.json = "object" -> FromObject(r.path, r.gallery, r.filename)
      [] r.json = "invalid" -> DefaultPath(r.gallery, r.filename)
      [] r.json = "other" -> NoPath

\* api_client.py:1340-1352: every exception of the parsing gives the default path
LenientPath(r) ==
    CASE r.json = "object" -> FromObject(r.path, r.gallery, r.filename)
      [] OTHER -> DefaultPath(r.gallery, r.filename)

\* upload_image returns for the 200 response
UploadReturns ==
    /\ ~reply.done
    /\ reply' = [reply EXCEPT !.done = TRUE,
                              !.result = IF reply.transport = "strict" THEN StrictPath(reply)
                                         ELSE LenientPath(reply)]
    /\ UNCHANGED nonReply

NextReply == UploadReturns

InitReplies == InitWake({FALSE}) /\ InitCoord({0}) /\ InitUpload /\ InitLog /\ InitReader /\ InitPulse /\ InitRestart({NoStore}, {0}) /\ InitApi /\ InitReply(Replies) /\ InitServices /\ InitCache({1}, {1})

SpecReply == InitReplies /\ [][NextReply]_vars

(* ---------------- upload_image (api_client.py:1025-1151) ---------------- *)

\* what a transport may answer: a 200 response, another status, a timeout or
\* connection error, aiohttp's "Duplicate Content-Length" error, any other exception
StrictOutcomes == {"ok", "status", "transient", "defect", "other"}
\* the lenient reader adds ConnectionError("HTTP header too large") (api_client.py:1203-1204)
LenientOutcomes == {"ok", "status", "transient", "too_large", "other"}

\* the exceptions of the lenient upload that the handler of api_client.py:1112
\* takes: asyncio.TimeoutError and ConnectionError, whatever their message
Retried(out) == out \in {"transient", "too_large"}

\* variant: the strict transport is tried first whatever the flag says
AttemptTransportStrictFirst(flag) == "strict"

\* api_client.py:1058: the transport an attempt uses
AttemptTransport(flag) == IF flag THEN "lenient" ELSE "strict"

\* variant: a successful upload clears the flag
StickyClearedOnSuccess(flag, out) ==
    IF out = "defect" THEN TRUE ELSE IF out = "ok" THEN FALSE ELSE flag

\* api_client.py:1116-1118: the flag after an attempt ended with outcome out
StickyAfter(flag, out) == IF out = "defect" THEN TRUE ELSE flag

\* api_client.py:1116-1122: the warning is logged whenever an attempt ended with
\* the framing defect
WarningsAfter(n, out) == IF out = "defect" THEN n + 1 ELSE n

\* the call returns v (api_client.py:1066, 1098-1110, 1133, 1146, 1149, 1151)
Return(r, v) == [r EXCEPT !.pc = "done", !.res = v]

\* one loop iteration begins (api_client.py:1052-1076): async_ensure_awake returns
\* at once with auto-wake off, then the transport is chosen by the flag
StartAttempt(r) ==
    LET t == AttemptTransport(sticky)
    IN  [r EXCEPT !.pc = t, !.attempts = @ + 1,
                  !.strictCalls = IF t = "strict" THEN @ + 1 ELSE @,
                  !.lenientCalls = IF t = "lenient" THEN @ + 1 ELSE @]

\* variant: the last attempt is followed by a wait too
BackoffAfterLast(r) ==
    IF r.attempt < r.n
    THEN [r EXCEPT !.pc = "sleep", !.waits = Append(@, 2 ^ r.attempt)]
    ELSE Return(r, "None")

\* api_client.py:1137-1146: wait 2 ** attempt before the next attempt, or give up
\* after the last one
Backoff(r) ==
    IF r.attempt < r.n - 1
    THEN [r EXCEPT !.pc = "sleep", !.waits = Append(@, 2 ^ r.attempt)]
    ELSE Return(r, "None")

\* history: an outcome other than a timeout or connection error was seen
Seen(r, out) ==
    [r EXCEPT !.transientOnly = @ /\ out = "transient",
              !.defectAt = IF out = "defect" THEN r.attempts ELSE @,
              !.tooLargeAt = IF out = "too_large" THEN r.attempts ELSE @]

\* upload_image is called (api_client.py:1049-1052); range(0) runs no attempt
UploadCall(u) ==
    /\ up[u].pc \in {"idle", "done"}
    /\ uploads < MaxUploads
    /\ uploads' = uploads + 1
    /\ \E n \in 0..MaxRetries :
         LET r == [IdleUpload EXCEPT !.n = n, !.entrySticky = sticky]
         IN  up' = [up EXCEPT ![u] = IF n = 0 THEN Return(r, "None") ELSE StartAttempt(r)]
    /\ UNCHANGED <<sticky, warnings>>
    /\ UNCHANGED nonUpload

\* the aiohttp POST ends (api_client.py:1076-1122)
StrictAnswer(u) ==
    /\ up[u].pc = "strict"
    /\ \E out \in StrictOutcomes :
         LET r == Seen(up[u], out)
         IN  /\ sticky' = StickyAfter(sticky, out)
             /\ warnings' = WarningsAfter(warnings, out)
             /\ up' = [up EXCEPT ![u] =
                         CASE out = "ok" -> Return(r, "path")
                           [] out = "transient" -> Backoff(r)
                           [] out = "defect" ->
                                [r EXCEPT !.pc = "fallback", !.lenientCalls = @ + 1]
                           [] OTHER -> Return(r, "None")]
    /\ UNCHANGED uploads
    /\ UNCHANGED nonUpload

\* _upload_image_lenient_http ends in an attempt that went straight to it
\* (api_client.py:1058-1066); its timeouts and connection errors reach the
\* handler at 1112, every other exception the one at 1147
LenientAnswer(u) ==
    /\ up[u].pc = "lenient"
    /\ \E out \in LenientOutcomes :
         LET r == Seen(up[u], out)
         IN  /\ sticky' = StickyAfter(sticky, out)
             /\ up' = [up EXCEPT ![u] =
                         CASE out = "ok" -> Return(r, "path")
                           [] Retried(out) -> Backoff(r)
                           [] OTHER -> Return(r, "None")]
    /\ UNCHANGED <<uploads, warnings>>
    /\ UNCHANGED nonUpload

\* api_client.py:1123-1146: the fallback's path is returned; a fallback that
\* returned None or raised (the `except Exception` of 1134 only logs) falls
\* through to the backoff of the attempt
AfterFallback(r, out) == IF out = "ok" THEN Return(r, "path") ELSE Backoff(r)

\* _upload_image_lenient_http ends as the fallback of a strict attempt
\* (api_client.py:1123-1146): a path is returned, anything else is a failed attempt
FallbackAnswer(u) ==
    /\ up[u].pc = "fallback"
    /\ \E out \in LenientOutcomes :
         /\ sticky' = StickyAfter(sticky, out)
         /\ up' = [up EXCEPT ![u] = AfterFallback(Seen(@, out), out)]
    /\ UNCHANGED <<uploads, warnings>>
    /\ UNCHANGED nonUpload

\* asyncio.sleep(wait_time) ends and the loop goes on (api_client.py:1143, 1052, 1151)
SleepEnds(u) ==
    /\ up[u].pc = "sleep"
    /\ LET r == [up[u] EXCEPT !.attempt = @ + 1]
       IN  up' = [up EXCEPT ![u] =
                     IF r.attempt < r.n THEN StartAttempt(r) ELSE Return(r, "None")]
    /\ UNCHANGED <<sticky, uploads, warnings>>
    /\ UNCHANGED nonUpload

\* an upload in progress moves on
UploadProgress(u) ==
    \/ StrictAnswer(u)
    \/ LenientAnswer(u)
    \/ FallbackAnswer(u)
    \/ SleepEnds(u)

NextUpload ==
    \E u \in Uploaders :
        \/ UploadCall(u)
        \/ StrictAnswer(u)
        \/ LenientAnswer(u)
        \/ FallbackAnswer(u)
        \/ SleepEnds(u)

\* the client with auto-wake off
InitUploads == InitWake({FALSE}) /\ InitCoord({0}) /\ InitUpload /\ InitLog /\ InitReader /\ InitPulse /\ InitRestart({NoStore}, {0}) /\ InitApi /\ InitReply({NoReply}) /\ InitServices /\ InitCache({1}, {1})

SpecUpload == InitUploads /\ [][NextUpload]_vars

\* every transport call is bounded by a timeout (api_client.py:1064, 1076, 1129)
\* and every sleep ends
FairUpload == SpecUpload /\ \A u \in Uploaders : WF_vars(UploadProgress(u))

(* -------- _log_request_state_change (api_client.py:140-162) -------- *)

\* variant: a key never seen before counts as a failure
PrevOkUnsetFails(d, key) == d[key] = "ok"

\* api_client.py:156: self._request_last_ok.get(key, True)
PrevOk(d, key) == d[key] # "fail"

\* api_client.py:159-162: what is logged for an outcome, given the previous one
\* and whether the caller passed a recover_message
LogDecision(prev_ok, ok, recover_message) ==
    IF ~ok /\ prev_ok THEN "fail"
    ELSE IF ok /\ ~prev_ok /\ recover_message THEN "recover"
    ELSE "nothing"

\* _log_request_state_change(key, ok=ok, recover_message=...): every call site
\* passes a recover_message (api_client.py:601-630, 672-738)
LogRequestStateChange(key, ok) ==
    /\ Len(recorded[StatusKey]) + Len(recorded[DeviceInfoKey]) < MaxEvents
    /\ requestLastOk' = [requestLastOk EXCEPT ![key] = IF ok THEN "ok" ELSE "fail"]
    /\ recorded' = [recorded EXCEPT ![key] =
           Append(@, [ok |-> ok,
                      log |-> LogDecision(PrevOk(requestLastOk, key), ok, TRUE)])]
    /\ UNCHANGED nonLog

\* get_status (api_client.py:601, 611, 623) or get_device_info
\* (api_client.py:672, 696, 709, 722, 731) records an outcome under its key
NextLog == \E key \in Keys, ok \in BOOLEAN : LogRequestStateChange(key, ok)

InitLogging == InitWake({FALSE}) /\ InitCoord({0}) /\ InitUpload /\ InitLog /\ InitReader /\ InitPulse /\ InitRestart({NoStore}, {0}) /\ InitApi /\ InitReply({NoReply}) /\ InitServices /\ InitCache({1}, {1})

SpecLog == InitLogging /\ [][NextLog]_vars

(* ---- _read_http_response_lenient (api_client.py:1181-1275) ---- *)

\* the bytes of a response; a status line and a header line stand for their
\* bytes as one item, every other item is one byte
CR == [kind |-> "cr", name |-> "", text |-> "", num |-> -1]
LF == [kind |-> "lf", name |-> "", text |-> "", num |-> -1]
Data(c) == [kind |-> "data", name |-> "", text |-> c, num |-> -1]
Hex(d) == [kind |-> "hex", name |-> "", text |-> "", num |-> d]
StatusLine(code) == [kind |-> "status", name |-> "", text |-> "", num |-> code]
ContentLength(name, n) == [kind |-> "hdr", name |-> name, text |-> ToString(n), num |-> n]
Chunked == [kind |-> "hdr", name |-> "Transfer-Encoding", text |-> "chunked", num |-> -1]
ConnectionClose == [kind |-> "hdr", name |-> "Connection", text |-> "close", num |-> -1]

DataBytes == {Data("x"), Data("y")}
Payloads == UNION {[1..n -> DataBytes] : n \in 0..MaxPayload}

\* str.lower() of a header name (api_client.py:1229)
Lower(name) ==
    CASE name \in {"Content-Length", "content-length", "CONTENT-LENGTH"} -> "content-length"
      [] name \in {"Transfer-Encoding", "transfer-encoding"} -> "transfer-encoding"
      [] name \in {"Connection", "connection"} -> "connection"
      [] OTHER -> name

RECURSIVE SumSeq(_)
SumSeq(q) == IF q = <<>> THEN 0 ELSE q[1] + SumSeq(Tail(q))

\* the ways to cut n bytes into chunks of 1..MaxChunk bytes
Chunkings(n) ==
    {q \in UNION {[1..k -> 1..MaxChunk] : k \in 0..n} : SumSeq(q) = n}

\* valid chunked framing: hex size, CRLF, payload, CRLF; a zero-size chunk and a
\* blank line at the end
RECURSIVE EncodeChunks(_, _)
EncodeChunks(p, sizes) ==
    IF sizes = <<>>
    THEN <<Hex(0), CR, LF, CR, LF>>
    ELSE <<Hex(sizes[1]), CR, LF>> \o SubSeq(p, 1, sizes[1]) \o <<CR, LF>>
            \o EncodeChunks(SubSeq(p, sizes[1] + 1, Len(p)), Tail(sizes))

\* a response: status line, header lines, blank line, body
Response(code, lines, body) ==
    LET Block[i \in 0..Len(lines)] ==
            IF i = 0 THEN <<>> ELSE Block[i - 1] \o <<lines[i], CR, LF>>
    IN  <<StatusLine(code), CR, LF>> \o Block[Len(lines)] \o <<CR, LF>> \o body

\* a payload in valid chunked framing, cut into chunks in every way
ChunkedResponses ==
    UNION {{[kind |-> "chunked", payload |-> p, first |-> -1,
             wire |-> Response(200, <<Chunked>>, EncodeChunks(p, q))] :
               q \in Chunkings(Len(p))} : p \in Payloads}

\* a payload behind one correct Content-Length
LengthResponses ==
    {[kind |-> "length", payload |-> p, first |-> Len(p),
      wire |-> Response(c, <<ContentLength("Content-Length", Len(p))>>, p)] :
        p \in Payloads, c \in {200, 500}}

\* two Content-Length headers with different values, the names in the same or
\* in different case, in front of a body as long as one of the two says
DuplicateResponses ==
    UNION {{[kind |-> "duplicate", payload |-> p, first |-> v[1],
             wire |-> Response(200, <<ContentLength("Content-Length", v[1]),
                                      ContentLength(nm, v[2])>>, p)] :
               p \in {x \in Payloads : Len(x) \in {v[1], v[2]}},
               nm \in {"Content-Length", "content-length"}} :
             v \in {w \in (0..MaxPayload) \X (0..MaxPayload) : w[1] # w[2]}}

\* no length given, the body ends with the connection
CloseResponses ==
    {[kind |-> "close", payload |-> p, first |-> -1,
      wire |-> Response(200, <<ConnectionClose>>, p)] : p \in Payloads}

Responses == ChunkedResponses \cup LengthResponses \cup DuplicateResponses \cup CloseResponses

\* where b"\r\n\r\n" begins in buf, 0 if it is not in buf (api_client.py:1201, 1208)
DelimAt(buf) ==
    LET hits == {i \in 1..Len(buf) - 3 : SubSeq(buf, i, i + 3) = <<CR, LF, CR, LF>>}
    IN  IF hits = {} THEN 0 ELSE CHOOSE i \in hits : \A j \in hits : i <= j

\* raw.split(b"\r\n\r\n", 1) (api_client.py:1211)
HeaderPart(raw) == SubSeq(raw, 1, DelimAt(raw) - 1)
Rest(raw) == SubSeq(raw, DelimAt(raw) + 4, Len(raw))

\* header_part.split(b"\r\n") (api_client.py:1212): the lines between the CRLFs
HeaderLines(part) == SelectSeq(part, LAMBDA b : b.kind \in {"status", "hdr"})

\* variant: a later header of the same name replaces the value
SetLast(h, key, val) ==
    IF key \in HeaderNames THEN [h EXCEPT ![key] = val] ELSE h

\* headers.setdefault(key, val) (api_client.py:1231), for the names looked up later
SetDefault(h, key, val) ==
    IF key \in HeaderNames /\ h[key] = Absent THEN [h EXCEPT ![key] = val] ELSE h

\* the loop over header_lines[1:] (api_client.py:1224-1231)
RECURSIVE ParseHeaders(_, _)
ParseHeaders(lines, h) ==
    IF lines = <<>> THEN h
    ELSE LET l == lines[1]
         IN  ParseHeaders(Tail(lines),
                 IF l.kind = "hdr"
                 THEN SetDefault(h, Lower(l.name), [text |-> l.text, num |-> l.num])
                 ELSE h)

\* StreamReader.readline(): up to and with the next b"\n", or what is left
\* when the stream ends before one
ReadLine(w) ==
    LET ends == {i \in 1..Len(w) : w[i] = LF}
    IN  IF ends = {} THEN w
        ELSE SubSeq(w, 1, CHOOSE i \in ends : \A j \in ends : i <= j)

\* bytes.strip() (api_client.py:1242)
Strip(line) ==
    LET ink == {i \in 1..Len(line) : line[i].kind \notin {"cr", "lf"}}
    IN  IF ink = {} THEN <<>>
        ELSE SubSeq(line, CHOOSE i \in ink : \A j \in ink : i <= j,
                          CHOOSE i \in ink : \A j \in ink : i >= j)

\* int(chunk_size_str, 16) (api_client.py:1244); -1 stands for ValueError
HexInt(q) ==
    LET Val[i \in 0..Len(q)] == IF i = 0 THEN 0 ELSE Val[i - 1] * 16 + q[i].num
    IN  IF q = <<>> \/ \E i \in 1..Len(q) : q[i].kind # "hex" THEN -1 ELSE Val[Len(q)]

\* variant: the bytes buffered with the headers are not counted
MissingIgnoresBuffered(total, body) == total

\* api_client.py:1264: the body bytes still to read
Missing(total, body) == total - Len(body)

\* the call ends: it returns, or raises err
Returns(r) == [r EXCEPT !.pc = "done"]
Raises(r, e) == [r EXCEPT !.pc = "raised", !.err = e]

\* api_client.py:1207-1267, from the end of _read_until_delim to the next await
AfterHeaders(r, raw) ==
    LET lines == HeaderLines(HeaderPart(raw))
        h == ParseHeaders(Tail(lines), r.headers)
        got == [r EXCEPT !.buf = raw, !.status = lines[1].num, !.headers = h,
                         !.body = Rest(raw)]
        total == h["content-length"].num
    IN  IF lines = <<>> \/ lines[1].kind # "status"
        THEN Raises([r EXCEPT !.buf = raw], "ConnectionError")
        ELSE IF h["transfer-encoding"].text = "chunked" THEN [got EXCEPT !.pc = "chunk"]
        ELSE IF h["content-length"] # Absent /\ total >= 0
             THEN IF Missing(total, got.body) > 0
                  THEN [got EXCEPT !.pc = "length"]
                  ELSE Returns([got EXCEPT !.body = SubSeq(@, 1, total)])
        ELSE [got EXCEPT !.pc = "eof"]

\* _upload_image_lenient_http has sent the request and calls the reader
\* (api_client.py:1325); the device answers with one of Responses
StartRead ==
    /\ rx.pc = "idle"
    /\ \E resp \in Responses :
         /\ wire' = resp.wire
         /\ rx' = [IdleRx EXCEPT !.pc = "headers", !.kind = resp.kind,
                                 !.payload = resp.payload, !.first = resp.first]
    /\ UNCHANGED nonReader

\* one reader.read(1024) of _read_until_delim (api_client.py:1194-1205) and, once
\* the delimiter is in buf, the parse of status line and headers (1207-1267);
\* the read hands out what has arrived, nothing only at the end of the stream
ReadHeaders ==
    /\ rx.pc = "headers"
    /\ \E k \in 0..Len(wire) :
         /\ k = 0 <=> wire = <<>>
         /\ wire' = SubSeq(wire, k + 1, Len(wire))
         /\ LET raw == rx.buf \o SubSeq(wire, 1, k)
            IN  rx' = IF k = 0 THEN Raises(rx, "ConnectionError")
                      ELSE IF DelimAt(raw) = 0 THEN [rx EXCEPT !.buf = raw]
                      ELSE AfterHeaders(rx, raw)
    /\ UNCHANGED nonReader

\* one turn of the chunked loop (api_client.py:1238-1254)
DecodeChunk ==
    /\ rx.pc = "chunk"
    /\ LET line == ReadLine(wire)
           w1 == SubSeq(wire, Len(line) + 1, Len(wire))
           size == HexInt(Strip(line))
           trailer == ReadLine(w1)
       IN  IF line = <<>> THEN rx' = Returns(rx) /\ wire' = wire
           ELSE IF size < 0 THEN rx' = Raises(rx, "ConnectionError") /\ wire' = w1
           ELSE IF size = 0
                THEN /\ rx' = Returns(rx)
                     /\ wire' = SubSeq(w1, Len(trailer) + 1, Len(w1))
           ELSE IF Len(w1) < size + 2
                THEN rx' = Raises(rx, "IncompleteReadError") /\ wire' = <<>>
           ELSE /\ rx' = [rx EXCEPT !.body = @ \o SubSeq(w1, 1, size)]
                /\ wire' = SubSeq(w1, size + 3, Len(w1))
    /\ UNCHANGED nonReader

\* reader.readexactly(missing) (api_client.py:1264-1267)
ReadBody ==
    /\ rx.pc = "length"
    /\ LET total == rx.headers["content-length"].num
           missing == Missing(total, rx.body)
       IN  IF Len(wire) < missing
           THEN rx' = Raises(rx, "IncompleteReadError") /\ wire' = <<>>
           ELSE /\ rx' = Returns([rx EXCEPT
                            !.body = SubSeq(@ \o SubSeq(wire, 1, missing), 1, total)])
                /\ wire' = SubSeq(wire, missing + 1, Len(wire))
    /\ UNCHANGED nonReader

\* one reader.read(1024) of the read-until-EOF loop (api_client.py:1270-1275)
ReadToEof ==
    /\ rx.pc = "eof"
    /\ \E k \in 0..Len(wire) :
         /\ k = 0 <=> wire = <<>>
         /\ wire' = SubSeq(wire, k + 1, Len(wire))
         /\ rx' = IF k = 0 THEN Returns(rx)
                  ELSE [rx EXCEPT !.body = @ \o SubSeq(wire, 1, k)]
    /\ UNCHANGED nonReader

NextReader ==
    \/ StartRead
    \/ ReadHeaders
    \/ DecodeChunk
    \/ ReadBody
    \/ ReadToEof

InitReading == InitWake({FALSE}) /\ InitCoord({0}) /\ InitUpload /\ InitLog /\ InitReader /\ InitPulse /\ InitRestart({NoStore}, {0}) /\ InitApi /\ InitReply({NoReply}) /\ InitServices /\ InitCache({1}, {1})

SpecReader == InitReading /\ [][NextReader]_vars

(* ---- the BLE pulse of async_ensure_awake (api_client.py:322-532) and of ---- *)
(* ---- async_ble_wake (ble_wake.py:98-311), with its exception handling    ---- *)

Impls == {"client", "helper"}
Modes == {"bleak_retry_connector", "bleak"}

\* the pulse is over and the caller gets None or a BleWakeResult; failed: the
\* warning of api_client.py:529 was logged or the result has ok = False
EndPulse(r, failed) ==
    [r EXCEPT !.pc = "ended", !.raising = FALSE, !.failed = failed, !.outcome = "returned"]

\* an exception leaves the function
Escape(r) == [r EXCEPT !.pc = "ended", !.raising = FALSE, !.failed = TRUE, !.outcome = "raised"]

\* an exception raised by the disconnect itself: async_ensure_awake catches it at
\* api_client.py:528, async_ble_wake at ble_wake.py:295 on the plain BleakClient
\* path; on its bleak_retry_connector path the disconnect runs in the `finally`
\* of ble_wake.py:185-192, behind the `except Exception` of line 182, and the
\* enclosing `try` of line 98 catches ImportError only
DisconnectError(r) ==
    IF r.impl = "helper" /\ r.mode = "bleak_retry_connector" THEN Escape(r)
    ELSE EndPulse(r, TRUE)

\* variant: no cleanup when the writes raised
AfterWritesCleanupOnSuccess(r, raised) ==
    IF raised THEN EndPulse(r, TRUE) ELSE [r EXCEPT !.pc = "disconnect", !.raising = raised]

\* the writes are over, with `raise last_err` or without: the `finally` of
\* api_client.py:420 / ble_wake.py:185, or BleakClient.__aexit__, disconnects
AfterWrites(r, raised) == [r EXCEPT !.pc = "disconnect", !.raising = raised]

\* the exception of a failed assert write to candidate idx
WriteError(idx, response) ==
    IF response THEN <<"write1", "write2">>[idx] ELSE <<"write1_nr", "write2_nr">>[idx]

\* the assert write just made is appended to the history
Wrote(r, response, out) ==
    [r EXCEPT !.writes = Append(@, [idx |-> r.idx, response |-> response,
                                     timeout |-> IF response THEN WriteTimeoutSeconds ELSE 0,
                                     out |-> out])]

\* `except Exception as err: last_err = err` (api_client.py:416-417, ble_wake.py:176-177)
LastErr(prev, err) == err

\* the next candidate after the exception err, or `raise last_err` after the
\* last one (api_client.py:351, 416-419, ble_wake.py:122, 176-180)
NextCandidate(r, err) ==
    LET r1 == [r EXCEPT !.lastErr = LastErr(@, err)]
    IN  IF r.idx < NumWakeChars THEN [r1 EXCEPT !.pc = "write", !.idx = @ + 1]
        ELSE AfterWrites(r1, TRUE)

\* variant: every failure of the write with response is followed by a write
\* without response
AfterResponseWriteAlwaysRetries(r, o) == [r EXCEPT !.pc = "write_nr"]

\* `except asyncio.TimeoutError` (api_client.py:368-380, ble_wake.py:135-147): a
\* timeout is followed by the write without response, any other exception
\* reaches the `except Exception` of the candidate loop
AfterResponseWrite(r, o) ==
    IF o = "timeout" THEN [r EXCEPT !.pc = "write_nr"]
    ELSE NextCandidate(r, WriteError(r.idx, TRUE))

\* a pulse starts: bleak_retry_connector is importable or not
\* (api_client.py:322-332, 439-443; ble_wake.py:98-110, 207-212)
StartPulse ==
    /\ pulse.pc \in {"idle", "ended"}
    /\ pulses < MaxPulses
    /\ pulses' = pulses + 1
    /\ \E i \in Impls, m \in Modes :
         pulse' = [IdlePulse EXCEPT !.impl = i, !.mode = m, !.pc = "connect"]
    /\ UNCHANGED nonPulse

\* establish_connection under wait_for (api_client.py:333-341, ble_wake.py:110-118),
\* or BleakClient.__aenter__, which may also return without a connection
\* (api_client.py:443-455, ble_wake.py:212-221)
PulseConnect ==
    /\ pulse.pc = "connect"
    /\ \E o \in {"ok", "timeout", "error", "notconnected"} :
         /\ o = "notconnected" => pulse.mode = "bleak"
         /\ o = "timeout" => pulse.mode = "bleak_retry_connector"
         /\ pulse' = CASE o = "ok" ->
                            [pulse EXCEPT !.pc = "write", !.idx = 1, !.connects = @ + 1]
                        [] o = "notconnected" ->
                            [pulse EXCEPT !.pc = "disconnect", !.failed = TRUE]
                        [] OTHER -> EndPulse([pulse EXCEPT !.surfaced = "connect"], TRUE)
    /\ UNCHANGED pulses
    /\ UNCHANGED nonPulse

\* the assert write with response under wait_for(timeout=2)
\* (api_client.py:359-368, ble_wake.py:126-135)
PulseWrite ==
    /\ pulse.pc = "write"
    /\ \E o \in {"ok", "timeout", "error"} :
         LET r == Wrote(pulse, TRUE, o)
         IN  pulse' = IF o = "ok"
                      THEN [r EXCEPT !.pc = "release", !.asserted = TRUE, !.lastErr = "none"]
                      ELSE AfterResponseWrite(r, o)
    /\ UNCHANGED pulses
    /\ UNCHANGED nonPulse

\* the assert write without response (api_client.py:375-380, ble_wake.py:142-147)
PulseWriteNoResponse ==
    /\ pulse.pc = "write_nr"
    /\ \E o \in {"ok", "error"} :
         LET r == Wrote(pulse, FALSE, o)
         IN  pulse' = IF o = "ok"
                      THEN [r EXCEPT !.pc = "release", !.asserted = TRUE,
                                     !.withResponse = FALSE, !.lastErr = "none"]
                      ELSE NextCandidate(r, WriteError(r.idx, FALSE))
    /\ UNCHANGED pulses
    /\ UNCHANGED nonPulse

\* the release write goes to char_uuid, the candidate of the assert write just
\* made (api_client.py:389-393, ble_wake.py:156-160)
Released(r, out) == [r EXCEPT !.releases = Append(@, [idx |-> r.idx, out |-> out])]

\* variant: a failed release write reaches the `except` of the candidate loop
AfterReleaseRaises(r, o) ==
    IF o = "error" THEN NextCandidate(r, "release") ELSE AfterWrites(r, FALSE)

\* `except Exception` around the release write only logs (api_client.py:396-404,
\* ble_wake.py:163-171); `last_err = None; break` follows either way (414-415, 174-175)
AfterRelease(r, o) == AfterWrites(r, FALSE)

\* the release write, best-effort, then `break` (api_client.py:384-415, ble_wake.py:150-175)
PulseRelease ==
    /\ pulse.pc = "release"
    /\ \E o \in {"ok", "error"} : pulse' = AfterRelease(Released(pulse, o), o)
    /\ UNCHANGED pulses
    /\ UNCHANGED nonPulse

\* client.disconnect(): under wait_for(timeout=5) on the bleak_retry_connector
\* path (api_client.py:420-431, ble_wake.py:185-192), by BleakClient.__aexit__
\* without a timeout on the other (api_client.py:443, ble_wake.py:212, 308-310)
PulseDisconnect ==
    /\ pulse.pc = "disconnect"
    /\ \E o \in {"ok", "timeout", "error"} :
         /\ o = "timeout" => pulse.mode = "bleak_retry_connector"
         /\ LET r == [pulse EXCEPT !.disconnects = @ + 1,
                                   !.bounded = @ /\ pulse.mode = "bleak_retry_connector",
                                   !.timedOut = (o = "timeout"),
                                   !.surfaced = IF o = "error" THEN "disconnect"
                                                ELSE IF pulse.raising THEN pulse.lastErr
                                                ELSE @]
            IN  pulse' = IF o = "error" THEN DisconnectError(r)
                         ELSE EndPulse(r, r.failed \/ r.raising)
    /\ UNCHANGED pulses
    /\ UNCHANGED nonPulse

NextPulse ==
    \/ StartPulse
    \/ PulseConnect
    \/ PulseWrite
    \/ PulseWriteNoResponse
    \/ PulseRelease
    \/ PulseDisconnect

InitPulses == InitWake({FALSE}) /\ InitCoord({0}) /\ InitUpload /\ InitLog /\ InitReader /\ InitPulse /\ InitRestart({NoStore}, {0}) /\ InitApi /\ InitReply({NoReply}) /\ InitServices /\ InitCache({1}, {1})

SpecPulse == InitPulses /\ [][NextPulse]_vars

(* ---------------- the domain services (__init__.py:96-160, 1172-1196) ---------------- *)

\* hass.services.has_service(DOMAIN, name)
HasService(svc, name) == svc[name] > 0

\* variant: the services are registered by every setup
ShouldRegisterAlways(svc) == TRUE

\* __init__.py:154: `if not hass.services.has_service(DOMAIN, "sleep")`
ShouldRegister(svc) == ~HasService(svc, "sleep")

\* _register_services (__init__.py:1163-1169): every service is registered
RegisterServices(svc) ==
    [s \in DOMAIN svc |-> IF s \in RegisteredServices THEN svc[s] + 1 ELSE svc[s]]

\* __init__.py:1191-1193: every name of SERVICE_NAMES that is registered is removed
RemoveServices(svc) ==
    [s \in DOMAIN svc |-> IF s \in SERVICE_NAMES /\ HasService(svc, s) THEN 0 ELSE svc[s]]

\* variant: every unload removes the services
LastEntryGoneAlways(data) == TRUE

\* __init__.py:1190: `if not hass.data.get(DOMAIN)`
LastEntryGone(data) == data = {}

\* Home Assistant sets an entry up: async_setup_entry runs up to its awaits of the
\* cached data and of the first refresh (__init__.py:96-123)
SetupEntry(e) ==
    /\ entryState[e] = "not_loaded"
    /\ entryState' = [entryState EXCEPT ![e] = "setup"]
    /\ UNCHANGED <<hassData, services>>
    /\ UNCHANGED nonSvc

\* the refresh is over: the entry goes into hass.data and the services are
\* registered unless "sleep" is; no await stands between the two
\* (__init__.py:125-157); then the platforms are awaited
SetupRegisters(e) ==
    /\ entryState[e] = "setup"
    /\ entryState' = [entryState EXCEPT ![e] = "forward"]
    /\ hassData' = hassData \cup {e}
    /\ services' = IF ShouldRegister(services) THEN RegisterServices(services) ELSE services
    /\ UNCHANGED nonSvc

\* async_forward_entry_setups returns and so does async_setup_entry
\* (__init__.py:160-162)
SetupReturns(e) ==
    /\ entryState[e] = "forward"
    /\ entryState' = [entryState EXCEPT ![e] = "loaded"]
    /\ UNCHANGED <<hassData, services>>
    /\ UNCHANGED nonSvc

\* Home Assistant unloads a loaded entry: async_unload_entry awaits
\* async_unload_platforms (__init__.py:1172-1174)
UnloadEntry(e) ==
    /\ entryState[e] = "loaded"
    /\ entryState' = [entryState EXCEPT ![e] = "unloading"]
    /\ UNCHANGED <<hassData, services>>
    /\ UNCHANGED nonSvc

\* async_unload_platforms returns unload_ok (__init__.py:1176-1196): the entry
\* leaves hass.data and, when that was the last one, the services are removed;
\* an entry whose platforms did not unload stays as it is
UnloadReturns(e) ==
    /\ entryState[e] = "unloading"
    /\ \E unload_ok \in BOOLEAN :
         IF unload_ok
         THEN /\ entryState' = [entryState EXCEPT ![e] = "not_loaded"]
              /\ hassData' = hassData \ {e}
              /\ services' = IF LastEntryGone(hassData \ {e}) THEN RemoveServices(services)
                              ELSE services
         ELSE /\ entryState' = [entryState EXCEPT ![e] = "failed_unload"]
              /\ UNCHANGED <<hassData, services>>
    /\ UNCHANGED nonSvc

NextServices ==
    \E e \in Entries :
        \/ SetupEntry(e)
        \/ SetupRegisters(e)
        \/ SetupReturns(e)
        \/ UnloadEntry(e)
        \/ UnloadReturns(e)

InitEntries == InitWake({FALSE}) /\ InitCoord({0}) /\ InitUpload /\ InitLog /\ InitReader /\ InitPulse /\ InitRestart({NoStore}, {0}) /\ InitApi /\ InitReply({NoReply}) /\ InitServices /\ InitCache({1}, {1})

SpecServices == InitEntries /\ [][NextServices]_vars

(* ---------------- BytesLruTtlCache (thumbnail_utils.py:49-86) ---------------- *)

\* the keys of an OrderedDict, oldest first
KeysOf(d) == {d[i].key : i \in 1..Len(d)}

\* self._data.get(key): the position of the key, 0 when it is absent
Position(d, key) ==
    IF key \in KeysOf(d) THEN CHOOSE i \in 1..Len(d) : d[i].key = key ELSE 0

\* s without its i-th element
Without(d, i) == SubSeq(d, 1, i - 1) \o SubSeq(d, i + 1, Len(d))

\* self._data.move_to_end(key)
MoveToEnd(d, key) ==
    LET i == Position(d, key) IN Without(d, i) \o <<d[i]>>

\* self._data[key] = entry: a key already there keeps its place, a new one goes last
Assign(d, key, entry) ==
    IF key \in KeysOf(d) THEN [d EXCEPT ![Position(d, key)] = entry]
    ELSE Append(d, entry)

\* variant: the newest entry is popped
PopItemLast(d) == SubSeq(d, 1, Len(d) - 1)

\* self._data.popitem(last=False)
PopItem(d) == Tail(d)

\* thumbnail_utils.py:85-86: `while len(self._data) > self._max_items`
RECURSIVE Evict(_, _)
Evict(d, max) == IF Len(d) > max THEN Evict(PopItem(d), max) ELSE d

\* variant: an entry as old as the TTL is still fresh
ExpiredLate(now, at, ttl) == now - at > ttl

\* thumbnail_utils.py:75: `(now_v - entry.fetched_at) >= self._ttl_seconds`
Expired(now, at, ttl) == now - at >= ttl

\* what an operation found: the entry of the key, if there is one
Found(op, key, hit) ==
    LET i == Position(cacheData, key)
    IN  [op |-> op, key |-> key, found |-> i > 0, at |-> IF i > 0 THEN cacheData[i].at ELSE 0,
         now |-> cacheNow, hit |-> hit]

\* set(key, ...) (thumbnail_utils.py:81-86)
CacheSet(key) ==
    /\ cacheOps < MaxCacheOps
    /\ cacheOps' = cacheOps + 1
    /\ cacheData' = Evict(MoveToEnd(Assign(cacheData, key, [key |-> key, at |-> cacheNow]), key),
                          cacheCfg.max)
    /\ cacheUsed' = [cacheUsed EXCEPT ![key] = cacheOps + 1]
    /\ cacheLast' = Found("set", key, FALSE)
    /\ UNCHANGED <<cacheCfg, cacheNow>>
    /\ UNCHANGED nonCache

\* get_any(key) (thumbnail_utils.py:60-67)
CacheGetAny(key) ==
    /\ cacheOps < MaxCacheOps
    /\ cacheOps' = cacheOps + 1
    /\ LET hit == Position(cacheData, key) > 0
       IN  /\ cacheData' = IF hit THEN MoveToEnd(cacheData, key) ELSE cacheData
           /\ cacheUsed' = IF hit THEN [cacheUsed EXCEPT ![key] = cacheOps + 1] ELSE cacheUsed
           /\ cacheLast' = Found("get_any", key, hit)
    /\ UNCHANGED <<cacheCfg, cacheNow>>
    /\ UNCHANGED nonCache

\* get_fresh(key) (thumbnail_utils.py:69-79)
CacheGetFresh(key) ==
    /\ cacheOps < MaxCacheOps
    /\ cacheOps' = cacheOps + 1
    /\ LET i == Position(cacheData, key)
           hit == IF i = 0 THEN FALSE ELSE ~Expired(cacheNow, cacheData[i].at, cacheCfg.ttl)
       IN  /\ cacheData' = IF hit THEN MoveToEnd(cacheData, key) ELSE cacheData
           /\ cacheUsed' = IF hit THEN [cacheUsed EXCEPT ![key] = cacheOps + 1] ELSE cacheUsed
           /\ cacheLast' = Found("get_fresh", key, hit)
    /\ UNCHANGED <<cacheCfg, cacheNow>>
    /\ UNCHANGED nonCache

\* time.monotonic() moves on
CacheTick ==
    /\ cacheNow < MaxCacheClock
    /\ cacheNow' = cacheNow + 1
    /\ UNCHANGED <<cacheCfg, cacheData, cacheUsed, cacheOps, cacheLast>>
    /\ UNCHANGED nonCache

NextCache ==
    \/ \E key \in CacheKeys : CacheSet(key)
    \/ \E key \in CacheKeys : CacheGetAny(key)
    \/ \E key \in CacheKeys : CacheGetFresh(key)
    \/ CacheTick

\* caches with a TTL of 0 to 2 s and room for 1 to MaxItems entries
InitCaches == InitWake({FALSE}) /\ InitCoord({0}) /\ InitUpload /\ InitLog /\ InitReader /\ InitPulse /\ InitRestart({NoStore}, {0}) /\ InitApi /\ InitReply({NoReply}) /\ InitServices /\ InitCache(0..2, 1..MaxItems)

SpecCache == InitCaches /\ [][NextCache]_vars

(* ======================================================================= *)
(* Properties of the gate and of the wake (specifications Spec, SpecOps)   *)
(* ======================================================================= *)

\* the operation of task p has come back from async_ensure_awake or has returned
Returned(p) == task[p].pc \in {"http", "done", "retry_sleep"}

\* task p is between establish_connection and the end of client.disconnect()
BleBusy(p) == task[p].pc \in {"connect", "write", "write_nr", "release", "disconnect"}

\* C1: an operation called with wake=False whose reachability probe fails
\* returns None, has issued no HTTP request of its own and has not touched BLE.
C1_GateReturnsNone ==
    \A p \in Tasks :
        task[p].how = "gate_fail" =>
            /\ task[p].pc = "done"
            /\ task[p].res = "None"
            /\ ~task[p].sent
            /\ ~task[p].ble

\* C1, its case: after two other operations, a get_image_bytes(wake=False) whose
\* probe failed has returned None
C1_Witness ==
    \E p \in Tasks :
        /\ ops = 3
        /\ task[p].kind = "get_image_bytes"
        /\ ~task[p].wake
        /\ task[p].how = "gate_fail"
        /\ task[p].pc = "done"
        /\ task[p].res = "None"

\* C3 (as stated): at most one task is between BLE connect and disconnect at any
\* time, counting async_ensure_awake and the Wake (Bluetooth) button alike.
C3_OneBleWakeAtATime ==
    Cardinality({p \in Tasks : BleBusy(p)}) <= 1

\* C4 (as stated): a caller that entered async_ensure_awake during another
\* caller's wake has not come back while that wake is still in progress.
C4_SecondCallerWaits ==
    \A q \in Tasks : task[q].arr => ~Returned(q)

\* C4 (amended): a caller that entered during another caller's wake and is out of
\* async_ensure_awake before that wake finished left through the fast path or
\* through the cooldown check made before the lock; otherwise it waits, and once
\* it holds the lock it starts a BLE attempt only if, at its re-check under the
\* lock, the probe failed and 30 s had passed since the last stamped attempt.
\* At most one task runs the client's BLE code at a time.
C4_RecheckUnderLock ==
    /\ \A q \in Tasks :
         task[q].arr =>
            \/ task[q].pc \in {"ping1", "waitlock"}
            \/ Returned(q) /\ task[q].how \in {"online", "cooldown"}
    /\ \A q \in Tasks :
         (task[q].via = "client" /\ task[q].pc \in WakePhases) =>
            /\ lock = q
            /\ task[q].elapsed
    /\ \A q \in Tasks :
         (task[q].waited /\ task[q].how \in {"online_locked", "cooldown_locked"}) =>
            ~task[q].arr

\* C4, its case: a caller that had to wait for the lock re-checked and is now in
\* a BLE connect of its own
C4_Witness ==
    \E q \in Tasks :
        /\ task[q].waited
        /\ task[q].via = "client"
        /\ task[q].pc = "connect"
        /\ Len(stamps) = 2

\* the task did a BLE connect in its current operation's async_ensure_awake
Connected(p) ==
    /\ task[p].via = "client"
    /\ task[p].pc \in WakePhases \/ task[p].how \in {"woken", "timeout"}

\* C5 (as stated): of two wake attempts issued less than 30 s apart while the
\* device stays unreachable, only one does a BLE connect.
C5_CooldownConnects ==
    \A p \in Tasks, q \in Tasks :
        (p # q /\ task[q].near /\ task[p].how = "timeout") => ~Connected(q)

\* C10: get_device_info(wake=True) issues its /deviceInfo request once
\* async_ensure_awake has returned, whatever the wake did.
C10_WakeTrueFetches ==
    \A p \in Tasks :
        (task[p].kind = "get_device_info" /\ task[p].wake /\ task[p].how # "none") =>
            \/ task[p].pc = "http"
            \/ task[p].sent

\* C10, its case: the device did not come online within the wait budget and
\* the request was issued all the same
C10_Witness ==
    \E p \in Tasks :
        /\ task[p].kind = "get_device_info"
        /\ task[p].wake
        /\ task[p].how = "timeout"
        /\ task[p].sent
        /\ task[p].pc = "done"

(* ======================================================================= *)
(* Properties of the snapshot handlers (specification SpecCoord)           *)
(* ======================================================================= *)

\* C2 (as stated): a handler whose fetch failed leaves a held snapshot in place,
\* in the coordinator's data and in the runtime cache alike.
C2_FailedFetchKeepsSnapshot ==
    (lastRun.handler \in {"refresh", "service", "button", "player"} /\ lastRun.fetched = 0) =>
        /\ lastRun.coordBefore # 0 => coordData # 0
        /\ lastRun.runtimeBefore # 0 => runtimeInfo # 0

(* ======================================================================= *)
(* Properties of upload_image (specifications SpecUpload and FairUpload)   *)
(* ======================================================================= *)

\* C6: a call made after the duplicate-Content-Length defect was observed
\* (the flag was set when it was called) never uses the strict transport, in
\* any of its attempts.
C6_StickyGoesLenient ==
    \A u \in Uploaders :
        up[u].entrySticky => up[u].strictCalls = 0 /\ up[u].pc # "strict"

\* C6, its case: a call made with the flag set retried over the lenient path
\* and has returned
C6_Witness ==
    \E u \in Uploaders :
        /\ up[u].entrySticky
        /\ up[u].pc = "done"
        /\ up[u].lenientCalls >= 2
        /\ up[u].strictCalls = 0

\* C7: the flag starts false and no step takes it from true to false.
C7_StickyMonotonic == ~sticky /\ [][sticky => sticky']_vars

\* C7, its case: the flag was set by an earlier call and a later call has
\* succeeded with the flag still set
C7_Witness ==
    \E u \in Uploaders :
        /\ sticky
        /\ up[u].entrySticky
        /\ up[u].pc = "done"
        /\ up[u].res = "path"

\* the counts and waits of one upload_image call
BoundedBackoff(r) ==
    /\ r.attempts <= r.n
    /\ \A k \in 1..Len(r.waits) : r.waits[k] = 2 ^ (k - 1)
    /\ r.pc \in {"strict", "lenient", "fallback"} => Len(r.waits) = r.attempts - 1
    /\ r.pc = "sleep" => Len(r.waits) = r.attempts /\ r.attempts < r.n
    /\ r.pc = "done" => r.res \in {"path", "None"} /\ Len(r.waits) < r.attempts + 1
    /\ (r.pc = "done" /\ r.transientOnly) =>
           /\ r.res = "None"
           /\ r.attempts = r.n
           /\ Len(r.waits) = (IF r.n = 0 THEN 0 ELSE r.n - 1)

\* C9: a call runs at most max_retries attempts; the k-th wait (from 0) lasts 2^k
\* and a wait follows every failed attempt but the last; a call whose attempts
\* all ended in timeouts or connection errors returns None after max_retries
\* attempts and max_retries - 1 waits; the result is a path or None, never an
\* exception; every call made returns.
C9_BoundedBackoff ==
    /\ [](\A u \in Uploaders : BoundedBackoff(up[u]))
    /\ \A u \in Uploaders : (up[u].pc # "idle") ~> (up[u].pc = "done")

\* C9, its case: three attempts that all timed out, waits of 1 s and 2 s, None
C9_Witness ==
    \E u \in Uploaders :
        /\ up[u].pc = "done"
        /\ up[u].transientOnly
        /\ up[u].n = 3
        /\ up[u].attempts = 3
        /\ up[u].waits = <<1, 2>>
        /\ up[u].res = "None"

(* ======================================================================= *)
(* Properties of the request-log throttle (specification SpecLog)          *)
(* ======================================================================= *)

\* the outcome recorded for a key before its i-th one; success before the first
Before(h, i) == IF i = 1 THEN TRUE ELSE h[i - 1].ok

\* C8: for every key and every outcome recorded for it, a failure message is
\* logged exactly when the outcome is a failure and the key's previous outcome
\* was a success (or there was none), a recovery message exactly when it is a
\* success and the key's previous outcome was a failure, and nothing otherwise;
\* only the key's own outcomes count, whatever was recorded for the other key.
C8_LogOnTransitionsOnly ==
    \A k \in Keys : \A i \in 1..Len(recorded[k]) :
        LET now == recorded[k][i]
            was == Before(recorded[k], i)
        IN  /\ now.log = "fail" <=> (was /\ ~now.ok)
            /\ now.log = "recover" <=> (~was /\ now.ok)
            /\ now.log = "nothing" <=> (was = now.ok)

\* C8, its case: one key failed, failed again and recovered while the other
\* key's first outcome, a failure, was logged in between
C8_Witness ==
    /\ Len(recorded[StatusKey]) = 4
    /\ recorded[StatusKey][1].log = "fail"
    /\ recorded[StatusKey][2].log = "nothing"
    /\ recorded[StatusKey][3].log = "recover"
    /\ recorded[StatusKey][4].log = "nothing"
    /\ Len(recorded[DeviceInfoKey]) = 1
    /\ recorded[DeviceInfoKey][1].log = "fail"
    /\ requestLastOk[StatusKey] = "ok"
    /\ requestLastOk[DeviceInfoKey] = "fail"

(* ======================================================================= *)
(* Properties of the lenient response reader (specification SpecReader)    *)
(* ======================================================================= *)

\* C11: a payload sent in valid chunked framing is returned exactly, however
\* the stream was split into reads: the reader does not raise and the body it
\* returns is the payload.
C11_ChunkedRoundTrip ==
    rx.kind = "chunked" =>
        /\ rx.pc # "raised"
        /\ rx.pc = "done" => rx.body = rx.payload

C13_ContentLengthRoundTrip ==
    rx.kind = "length" =>
        /\ rx.pc # "raised"
        /\ rx.pc = "done" => rx.body = rx.payload /\ Len(rx.body) = rx.first
        /\ rx.pc \notin {"chunk", "eof"}

\* C13, its case: one body byte arrived with the headers, the other in a later read
C13_Witness ==
    /\ rx.kind = "length"
    /\ rx.pc = "done"
    /\ Len(rx.payload) = 2
    /\ Len(Rest(rx.buf)) = 1
    /\ rx.body = rx.payload

(* ======================================================================= *)
(* More properties of async_ensure_awake (specification Spec)              *)
(* ======================================================================= *)

\* the ways async_ensure_awake returns at once (api_client.py:252-259)
NoOps == {"disabled", "nomac", "online"}

\* task p returns from async_ensure_awake in this step, in one of the three ways
ReturnsAtOnce(p) ==
    /\ task[p].pc # "http"
    /\ task'[p].pc = "http"
    /\ task'[p].how \in NoOps

\* C14: with auto-wake disabled or no MAC address the client never probes, never
\* holds the wake lock, never stamps an attempt and never uses BLE; and every
\* return of async_ensure_awake as disabled, without MAC or after a successful
\* first probe comes straight from the entry or the first probe, leaves the
\* lock, the last-attempt timestamp and the list of attempts as they were, and
\* the call has used no BLE.
C14_NoOpReturns ==
    /\ []((~bleAutoWake \/ ~hasMac) =>
            /\ lock = NoTask /\ lastWake = 0 /\ stamps = <<>>
            /\ \A p \in Tasks : task[p].via = "client" =>
                   task[p].pc \notin InsideEnsure /\ ~task[p].ble)
    /\ [][\A p \in Tasks : ReturnsAtOnce(p) =>
            /\ task[p].pc \notin InsideEnsure \ {"ping1"}
            /\ lock # p /\ lock' = lock
            /\ lastWake' = lastWake /\ stamps' = stamps
            /\ ~task'[p].ble /\ ~task'[p].waited]_vars

\* C14, its case: a caller returned at once because its probe was answered,
\* while another caller's wake attempt held the lock
C14_Witness ==
    \E p \in Tasks :
        /\ task[p].via = "client"
        /\ task[p].how = "online"
        /\ task[p].pc = "http"
        /\ ~task[p].ble
        /\ lock \notin {NoTask, p}
        /\ stamps # <<>>

(* ======================================================================= *)
(* Properties of the BLE pulse (specification SpecPulse)                   *)
(* ======================================================================= *)

\* C15: whatever connect, the writes and the disconnect do, the pulse ends by
\* returning to its caller (None from async_ensure_awake, a BleWakeResult from
\* async_ble_wake), never by raising.
C15_BestEffort == pulse.outcome # "raised"

\* the pulse has ended and every connection it made was disconnected once
DisconnectedOnce ==
    pulse.pc = "ended" =>
        /\ pulse.disconnects <= 1
        /\ pulse.connects = 1 => pulse.disconnects = 1

\* a disconnect timeout after a successful assert write is not a failure
TimeoutIsNoFailure == (pulse.pc = "ended" /\ pulse.asserted /\ pulse.timedOut) => ~pulse.failed

WaitPhases == {"poll", "pollsleep"}

\* task p leaves the wait loop in this step
LeavesWait(p) == task[p].pc \in WaitPhases /\ task'[p].pc \notin WaitPhases

\* C17: a probe of the wait loop is only issued while less than
\* http_online_timeout_seconds have elapsed since the loop began; the loop is
\* left either from a probe, at once when it succeeds, or from the 2 s sleep
\* once the time has elapsed, and in both cases async_ensure_awake returns and
\* the wake lock is free; a loop that began early enough for the clock of the
\* model to reach its limit is always left.
C17_WaitTerminates ==
    /\ [](\A p \in Tasks : task[p].pc = "poll" => (clock - task[p].start) < HttpOnlineTimeoutSeconds)
    /\ [][\A p \in Tasks : LeavesWait(p) =>
            /\ task'[p].pc = "http"
            /\ lock = p /\ lock' = NoTask
            /\ \/ task[p].pc = "poll" /\ task'[p].how = "woken"
               \/ /\ task[p].pc = "pollsleep" /\ task'[p].how = "timeout"
                  /\ (clock - task[p].start) >= HttpOnlineTimeoutSeconds]_vars
    /\ \A p \in Tasks :
          (task[p].pc \in WaitPhases /\ task[p].start + HttpOnlineTimeoutSeconds <= MaxClock)
              ~> (task[p].pc \notin WaitPhases)

\* C17, its case: no probe succeeded, the loop ran out of time, the caller is
\* back in its operation and the lock is free
C17_Witness ==
    \E p \in Tasks :
        /\ task[p].how = "timeout"
        /\ task[p].pc = "http"
        /\ lock = NoTask
        /\ clock >= BleWakeWaitSeconds + HttpOnlineTimeoutSeconds
        /\ Len(stamps) = 1

(* ======================================================================= *)
(* More properties of the snapshot coordinator (specification SpecCoord)   *)
(* ======================================================================= *)

\* C18: a coordinator refresh whose fetch failed leaves the coordinator's data
\* as it was, and the copies of the snapshot held for the entities (runtime
\* cache, media player) as they were when they held one.
C18_FailedRefreshKeepsData ==
    (lastRun.handler = "refresh" /\ lastRun.fetched = 0) =>
        /\ coordData = lastRun.coordBefore
        /\ lastRun.runtimeBefore # 0 => runtimeInfo = lastRun.runtimeBefore
        /\ lastRun.coordBefore # 0 => runtimeInfo = coordData /\ playerInfo = coordData

\* C18, its case: a push replaced the data, then a refresh failed and the
\* pushed snapshot is still the coordinator's data
C18_Witness ==
    /\ lastRun.handler = "refresh"
    /\ lastRun.fetched = 0
    /\ lastRun.prev.pushed
    /\ lastRun.prev.accepted
    /\ lastRun.prev.fetched # 0
    /\ coordData = lastRun.prev.fetched
    /\ ~lastOk

\* C19: a push of a snapshot equal to the current data changes nothing, saves
\* nothing and notifies nobody; two pushes of the same value in a row, the first
\* of which replaced the data, cause one save and one notification together.
C19_PushDedupe ==
    /\ (lastRun.pushed /\ lastRun.fetched = lastRun.coordBefore) =>
           /\ ~lastRun.accepted
           /\ lastRun.notified = 0 /\ lastRun.persisted = 0
           /\ coordData = lastRun.coordBefore
    /\ (lastRun.pushed /\ lastRun.prev.pushed /\ lastRun.prev.accepted
            /\ lastRun.fetched = lastRun.prev.fetched) =>
           /\ lastRun.prev.notified + lastRun.notified = 1
           /\ lastRun.prev.persisted + lastRun.persisted = 1

\* C19, its case: the service pushed a new snapshot and then the same one again
C19_Witness ==
    /\ lastRun.handler = "service" /\ lastRun.prev.handler = "service"
    /\ lastRun.fetched # 0
    /\ lastRun.fetched = lastRun.prev.fetched
    /\ lastRun.prev.accepted /\ lastRun.prev.notified = 1 /\ lastRun.prev.persisted = 1
    /\ lastRun.notified = 0 /\ lastRun.persisted = 0
    /\ coordData = lastRun.fetched

\* C20: a push of a snapshot that differs from the current data makes it the
\* current data, marks the update successful and notifies the listeners once;
\* the runtime cache holds the new snapshot afterwards.
C20_PushReplacesAndNotifiesOnce ==
    (lastRun.pushed /\ lastRun.fetched # 0 /\ lastRun.fetched # lastRun.coordBefore) =>
        /\ coordData = lastRun.fetched
        /\ lastRun.accepted
        /\ lastRun.notified = 1
        /\ lastOk
        /\ runtimeInfo = lastRun.fetched
        /\ playerInfo = lastRun.fetched

\* C20, its case: update_settings pushed a snapshot that replaced another one
C20_Witness ==
    /\ lastRun.handler = "settings"
    /\ lastRun.coordBefore = 1
    /\ lastRun.fetched = 2
    /\ coordData = 2
    /\ runtimeInfo = 2
    /\ lastRun.notified = 1

(* ======================================================================= *)
(* Properties of the restart (specification SpecRestart)                   *)
(* ======================================================================= *)

\* C21: after load_cached restored a snapshot persisted with timestamp T, the
\* reported last-update time is T, earlier than the restart, for as long as
\* no refresh succeeded and no push was accepted; the timestamp changes only
\* by load_cached itself, a successful refresh or an accepted push, and the
\* latter two stamp the present time.
C21_RestoredTimestampKept ==
    /\ [](restoreLog.by = "load" =>
            /\ snap.at = restoreLog.restoredAt
            /\ NativeValue = restoreLog.restoredAt
            /\ snap.at <= MaxStamp /\ snap.at < wallClock)
    /\ [][snap'.at # snap.at =>
            \/ boot = "created" /\ snap'.at = store.at
            \/ /\ boot # "created" /\ restoreLog'.by \in {"refresh", "push"}
               /\ snap'.at = wallClock /\ snap'.data # 0]_vars

\* C21, its case: the snapshot was restored, the first refresh failed, time
\* went on, and the sensor still reports the persisted timestamp
C21_Witness ==
    /\ boot = "running"
    /\ restoreLog.by = "load"
    /\ restoreLog.restoredAt = 1
    /\ NativeValue = 1
    /\ wallClock = MaxWall

(* ======================================================================= *)
(* Properties of the coordinator's refresh (specification SpecRefresh)     *)
(* ======================================================================= *)

\* C22: a refresh of the coordinator makes one get_device_info call, with
\* wake=False; the task running it is never inside async_ensure_awake, never
\* holds the wake lock, touches no BLE, and no wake timestamp is written by a
\* step of a task that runs a refresh.
C22_RefreshNeverWakes ==
    /\ [](\A p \in Tasks : task[p].by = "refresh" =>
              /\ task[p].kind = "get_device_info" /\ ~task[p].wake
              /\ task[p].calls = 1
              /\ task[p].pc \in {"gate", "http", "done"}
              /\ lock # p
              /\ ~task[p].ble)
    /\ [][stamps' # stamps =>
            \E q \in Tasks : task[q].by = "caller" /\ task'[q] # task[q]]_vars

\* C22, its case: a refresh fetched the snapshot over HTTP while the other task
\* was in its BLE wake under the lock
C22_Witness ==
    \E p \in Tasks :
        /\ task[p].by = "refresh"
        /\ task[p].pc = "done" /\ task[p].sent /\ task[p].res = "data"
        /\ lock \in Tasks \ {p}
        /\ task[lock].pc \in WakePhases
        /\ Len(stamps) = 1

(* ======================================================================= *)
(* Properties of the API-client operations (specification SpecApi)         *)
(* ======================================================================= *)

\* C23: every HTTP request an operation awaits runs under a timeout of its own,
\* and no operation stays suspended for ever at a request.
C23_EveryRequestTimed ==
    /\ call.bare = 0
    /\ call.pc # "hung"

\* the ways a request fails
Failures == {"status", "refused", "timeout", "silent", "bad_body"}

\* an operation has returned after its last request failed, or after the probe
\* of its wake=False branch failed
ReturnedAfterFailure ==
    /\ call.pc = "done"
    /\ \/ call.cause \in Failures
       \/ call.requests = 0 /\ call.answer # "none" /\ ~call.reach

NamedOps ==
    {"update_settings", "put_playlist", "get_playlist", "delete_playlist", "show_playlist",
     "upload_images_multi"}

\* C25: an operation called without a required argument has returned its failure
\* sentinel without a probe, a BLE wake or an HTTP request.
C25_MissingArgumentNoNetwork ==
    (call.op \in NamedOps /\ call.arg # "ok") =>
        /\ call.pc = "done"
        /\ call.res = Operation(call.op).sentinel
        /\ call.probes = 0 /\ ~call.ble /\ call.requests = 0

\* C26: the probe reports reachable exactly when it got a response, whatever
\* its status; a refused connection, a timeout and a silent peer are
\* unreachable; the probe raises nothing and the step that probes starts no
\* BLE wake.
C26_ProbeReachability ==
    /\ [](call.answer # "none" =>
            /\ call.reach <=> call.answer \in {"200", "404", "500"}
            /\ ~call.raised
            /\ call.pc # "hung")
    /\ [][call'.probes # call.probes /\ call'.answer # "none" => call'.ble = call.ble]_vars

\* C26, its case: get_status(wake=False) went on to its request after the probe
\* got a 500 response
C26_Witness ==
    /\ call.op = "get_status" /\ ~call.wake
    /\ call.answer = "500" /\ call.reach
    /\ call.requests = 1
    /\ ~call.ble

(* ======================================================================= *)
(* Properties of the returned upload path (specification SpecReply)        *)
(* ======================================================================= *)

\* C27: for a 200 upload response upload_image returns a path: the response's
\* path followed by the filename when that path ends in "/", the response's
\* path itself when it is a non-empty string that does not end in "/", and
\* /gallerys/<gallery>/<filename> when the body has no path or is no JSON.
C27_UploadPath ==
    reply.done =>
        /\ reply.result # NoPath
        /\ (reply.json = "object" /\ IsNonEmptyString(reply.path) /\ EndsWithSlash(reply.path)) =>
               reply.result = reply.path \o <<reply.filename>>
        /\ (reply.json = "object" /\ IsNonEmptyString(reply.path) /\ ~EndsWithSlash(reply.path)) =>
               reply.result = reply.path
        /\ (reply.json # "object" \/ reply.path = NoPathKey) =>
               reply.result = DefaultPath(reply.gallery, reply.filename)

\* C39: for the same 200 response body the lenient path returns what the
\* strict path returns, whatever the body: an object with a directory path, with
\* a file path, without a path, JSON that is no object, text that is no JSON.
C39_LenientEqualsStrict ==
    reply.done =>
        /\ reply.transport = "lenient" => reply.result = StrictPath(reply)
        /\ reply.transport = "strict" => reply.result = LenientPath(reply)

(* ======================================================================= *)
(* More properties of upload_image (specification SpecUpload)              *)
(* ======================================================================= *)

\* C32: an upload whose lenient read hit the header-size limit returns None
\* at once: no backoff sleep and no further attempt follow.
C32_HeaderLimitIsFatal ==
    \A u \in Uploaders :
        up[u].tooLargeAt > 0 =>
            /\ up[u].pc = "done"
            /\ up[u].res = "None"
            /\ up[u].attempts = up[u].tooLargeAt
            /\ Len(up[u].waits) < up[u].tooLargeAt

\* C33: an attempt that met the framing defect runs the lenient fallback and is
\* the last attempt of its call: neither a backoff sleep nor another attempt
\* follows, whatever the fallback gave.
C33_NoRetryAfterFallback ==
    \A u \in Uploaders :
        up[u].defectAt > 0 =>
            /\ up[u].pc \in {"fallback", "done"}
            /\ up[u].attempts = up[u].defectAt
            /\ Len(up[u].waits) < up[u].defectAt
            /\ up[u].lenientCalls = 1

\* C28: over the life of the client the framing-defect warning is logged at
\* most once, however the upload_image calls running on it interleave.
C28_WarnsAtMostOnce ==
    warnings <= 1

(* ======================================================================= *)
(* More properties of the BLE pulse (specification SpecPulse)              *)
(* ======================================================================= *)

\* the candidates are written in the configured order, none left out, and
\* nothing is written after an assert write that succeeded
InOrderUntilSuccess ==
    LET w == pulse.writes
    IN  /\ Len(w) > 0 => w[1].idx = 1
        /\ \A k \in 1..(Len(w) - 1) :
              /\ w[k + 1].idx \in {w[k].idx, w[k].idx + 1}
              /\ w[k].out # "ok"
        /\ \A k \in 1..Len(w) : w[k].idx \in 1..NumWakeChars

\* the pulse ended after every candidate failed
EveryCandidateFailed ==
    /\ pulse.pc = "ended"
    /\ pulse.connects = 1
    /\ ~pulse.asserted

\* C29 as stated: the candidates are tried in order, the first successful
\* assert write is the last write, and when every candidate failed the error
\* surfaced is the one of the last candidate tried.
C29_LastErrorSurfaced ==
    /\ InOrderUntilSuccess
    /\ EveryCandidateFailed =>
           /\ pulse.writes[Len(pulse.writes)].idx = NumWakeChars
           /\ pulse.surfaced = WriteError(NumWakeChars, pulse.writes[Len(pulse.writes)].response)

\* C30: the first assert write to a candidate is made with response under the
\* 2 s timeout; a write without response is made exactly after a write with
\* response to the same candidate timed out; after any other error the next
\* write, if any, goes with response to the next candidate.
C30_NoResponseOnlyAfterTimeout ==
    LET w == pulse.writes
    IN  /\ \A k \in 1..Len(w) :
              /\ (k = 1 \/ w[k - 1].idx # w[k].idx) => w[k].response /\ w[k].timeout = WriteTimeoutSeconds
              /\ ~w[k].response =>
                    /\ k > 1 /\ w[k - 1].idx = w[k].idx
                    /\ w[k - 1].response /\ w[k - 1].out = "timeout"
              /\ (w[k].response /\ w[k].out = "timeout") =>
                    IF k = Len(w) THEN pulse.pc = "write_nr"
                    ELSE w[k + 1].idx = w[k].idx /\ ~w[k + 1].response
              /\ w[k].out = "error" =>
                    IF k = Len(w)
                    THEN pulse.pc # "write_nr" /\ (pulse.pc = "write" => pulse.idx = w[k].idx + 1)
                    ELSE w[k + 1].idx = w[k].idx + 1 /\ w[k + 1].response
        /\ pulse.pc = "write_nr" => Len(w) > 0 /\ w[Len(w)].out = "timeout"

\* C30, its case: the write with response to the first candidate timed out and
\* the write without response to it succeeded
C30_Witness ==
    /\ Len(pulse.writes) = 2
    /\ pulse.writes[1] = [idx |-> 1, response |-> TRUE, timeout |-> WriteTimeoutSeconds, out |-> "timeout"]
    /\ pulse.writes[2] = [idx |-> 1, response |-> FALSE, timeout |-> 0, out |-> "ok"]
    /\ pulse.asserted /\ ~pulse.withResponse

\* C31: the release write is made only after a successful assert write and to
\* the candidate that took it; when it fails nothing is raised, no other
\* candidate is written and the attempt fails only if the disconnect raised.
C31_ReleaseBestEffort ==
    LET w == pulse.writes
        q == pulse.releases
    IN  /\ Len(q) <= 1
        /\ Len(q) = 1 =>
              /\ Len(w) > 0 /\ w[Len(w)].out = "ok"
              /\ q[1].idx = w[Len(w)].idx
              /\ pulse.asserted
              /\ pulse.pc \in {"disconnect", "ended"}
              /\ ~pulse.raising
              /\ pulse.lastErr = "none"
              /\ pulse.failed => pulse.surfaced = "disconnect"
        /\ pulse.pc = "release" => pulse.asserted /\ w[Len(w)].out = "ok"

\* C31, its case: the assert write to the alternate characteristic succeeded,
\* the release write to it failed and the attempt ended as a success
C31_Witness ==
    /\ pulse.pc = "ended"
    /\ pulse.releases = <<[idx |-> 2, out |-> "error"]>>
    /\ pulse.writes[Len(pulse.writes)] = [idx |-> 2, response |-> TRUE, timeout |-> WriteTimeoutSeconds, out |-> "ok"]
    /\ ~pulse.failed
    /\ pulse.outcome = "returned"

(* ======================================================================= *)
(* Properties of the arguments of the operations (specification SpecApi)   *)
(* ======================================================================= *)

\* C34: create_gallery and delete_gallery called with an empty or blank name
\* return False and send no request to the device.
C34_BlankGalleryNameNoRequest ==
    (call.op \in GalleryOps /\ call.arg = "no_name") =>
        /\ call.pc = "done"
        /\ call.res = "False"
        /\ call.requests = 0

\* C35: show_image_by_name in playlist mode without a playlist returns False
\* before any probe, BLE wake or POST.
C35_NoPlaylistNoNetwork ==
    (call.op = "show_image_by_name" /\ call.arg = "no_playlist") =>
        /\ call.pc = "done"
        /\ call.res = "False"
        /\ call.probes = 0 /\ ~call.ble /\ call.requests = 0

\* the host a URL names: what stands between the scheme and the first slash,
\* after the user information if there is any
Authority(url) ==
    LET rest == Tail(url)
        cut == {i \in 1..Len(rest) : rest[i] = "/"}
        auth == IF cut = {} THEN rest
                ELSE SubSeq(rest, 1, (CHOOSE i \in cut : \A j \in cut : i <= j) - 1)
        ats == {i \in 1..Len(auth) : auth[i] = "@"}
    IN  IF ats = {} THEN auth
        ELSE SubSeq(auth, (CHOOSE i \in ats : \A j \in ats : i >= j) + 1, Len(auth))

\* C36: get_image_bytes called with a path that is empty, no string or not
\* absolute returns None without a probe, a BLE wake or a GET; every GET it
\* issues goes to the configured host.
C36_OnlyDevicePaths ==
    call.op = "get_image_bytes" =>
        /\ call.arg = "no_path" =>
              /\ call.pc = "done"
              /\ call.res = "None"
              /\ call.probes = 0 /\ ~call.ble /\ call.requests = 0
        /\ call.requests > 0 => Authority(call.url) = DeviceHost

\* C36, its case: a path that begins with a slash and goes on with an at sign
\* was fetched from the device
C36_Witness ==
    /\ call.op = "get_image_bytes"
    /\ call.text = <<"/", "@">>
    /\ call.requests = 1
    /\ call.url = <<"http://", "h", "/", "@">>
    /\ call.res = "data"

(* ======================================================================= *)
(* Properties of the domain services (specification SpecServices)          *)
(* ======================================================================= *)

\* the entry is set up as far as the services are concerned and not unloaded
Remains(e) == entryState[e] \in {"forward", "loaded", "unloading", "failed_unload"}

\* all services of the domain are registered
ServicesRegistered == \A s \in DOMAIN services : services[s] > 0

C38_LruTtl ==
    /\ [](/\ Len(cacheData) <= cacheCfg.max
          /\ \A i, j \in 1..Len(cacheData) :
                i < j => cacheUsed[cacheData[i].key] < cacheUsed[cacheData[j].key]
          /\ cacheLast.op = "set" =>
                /\ Len(cacheData) > 0
                /\ cacheData[Len(cacheData)].key = cacheLast.key
                /\ cacheData[Len(cacheData)].at = cacheLast.now
          /\ cacheLast.op = "get_fresh" =>
                (cacheLast.hit <=> cacheLast.found /\ cacheLast.now - cacheLast.at < cacheCfg.ttl)
          /\ cacheLast.op = "get_any" => (cacheLast.hit <=> cacheLast.found))
    /\ [][\A k \in KeysOf(cacheData) \ KeysOf(cacheData') :
              /\ cacheLast'.op = "set" /\ cacheLast'.key # k
              /\ Len(cacheData') = cacheCfg.max
              /\ \A j \in KeysOf(cacheData') : cacheUsed[k] < cacheUsed'[j]]_vars

\* C38, its case: a cache for two entries that was full took a third key and
\* dropped the entry used least recently, after a hit had refreshed the older one
C38_Witness ==
    /\ cacheCfg.max = 2
    /\ cacheOps = 4
    /\ cacheLast.op = "set" /\ cacheLast.key = "k3" /\ ~cacheLast.found
    /\ KeysOf(cacheData) = {"k1", "k3"}
    /\ cacheUsed["k1"] = 3 /\ cacheUsed["k2"] = 2

(* ======================================================================= *)
(* More properties of the wake (specification Spec)                        *)
(* ======================================================================= *)

\* C40: any two attempts of async_ensure_awake that passed the cooldown check
\* under the lock are at least 30 s apart, also when the earlier one ended at
\* the peripheral that was not found, and the first one is at least 30 s after
\* the client was made.
C40_CooldownBetweenAttempts ==
    /\ \A k \in 1..(Len(stamps) - 1) : stamps[k + 1] - stamps[k] >= Cooldown
    /\ Len(stamps) > 0 => stamps[1] >= Cooldown
    /\ \A p \in Tasks :
          (task[p].via = "client" /\ task[p].pc \in WakePhases) =>
              Len(stamps) > 0 /\ stamps[Len(stamps)] <= clock

\* C40, its case: an attempt that did not find the peripheral at 30 s, and the
\* next attempt, 30 s later, in its BLE connect
C40_Witness ==
    \E p \in Tasks, q \in Tasks :
        /\ p # q
        /\ task[p].how = "notfound"
        /\ task[q].via = "client" /\ task[q].pc = "connect"
        /\ stamps = <<30, 60>>

====
